---- MODULE Spec2Model ----
(***************************************************************************)
(* FunnelKVS-CPP: the Chord ring node (ChordNode), its local store, the    *)
(* replication manager, the failure detector and the request dispatcher    *)
(* (ChordServer::handle_chord_operation), modelled as state machines.      *)
(*                                                                         *)
(* A node is identified by its identifier (NodeInfo equality is by id).    *)
(* A key is identified by its identifier SHA1(key).  The identifier space  *)
(* is 2^IdBits instead of 2^160.                                           *)
(***************************************************************************)
EXTENDS Integers, Sequences, FiniteSets, TLC

\* ------------------------------------------------------------------ bounds
IdBits == 3
MaxFailures == 4

\* --------------------------------------------------------------- constants
SUCCESSOR_LIST_SIZE == 8
failure_threshold == 3
DefaultReplicationFactor == 3

FINGER_TABLE_SIZE == IdBits
Modulus == 2 ^ IdBits

\* The nodes (by identifier), the keys (by identifier) and the values.
\* Key 4 hashes to the identifier of node 4; key 7 lies behind the last node.
Node == {1, 4, 6}
Key == {4, 7}
Value == {"v1", "v2"}
Nil == 0 - 1
NoValue == "absent"

VARIABLES
    status,             \* process state of each node: down / up / stopped
    predecessor,        \* ChordNode::predecessor (Nil: nullptr)
    successor_list,     \* ChordNode::successor_list
    finger_table,       \* ChordNode::finger_table
    next_finger_to_fix, \* ChordNode::next_finger_to_fix
    local_storage,      \* Storage::data of each node
    replication_factor, \* ReplicationConfig::replication_factor
    node_statuses,      \* FailureDetector::node_statuses of each node
    fail_streak,        \* observer: consecutive failed probes since the last success
    clock_late,         \* steady_clock::now() is more than max_age past its epoch
    wedged,             \* a thread of the node deadlocked holding routing_mutex
    last,               \* observer: the handler that ran in the last step, and its result
    acked,              \* observer: per key, the last PUT answered SUCCESS, or the DELETE after it
    founder,            \* observer: the node that created the ring
    th,                 \* lock model: each thread's remaining events and held mutexes
    owner,              \* lock model: the thread owning each mutex
    running,            \* ChordNode::running of one node
    loops,              \* that node's maintenance threads: position in the loop, remote call
    stopper,            \* progress of stop_maintenance: 0 idle, i joining thread i, 4 done
    pending_tasks,      \* ReplicationManager::pending_tasks of an asynchronous manager
    async_running,      \* ReplicationManager::running of that manager
    worker,             \* its processing_thread: none, ready, stuck in a request, exited,
                        \* testing (wait predicate found false), waiting (blocked in wait)
    attempts,           \* observer: per task, the calls of process_single_task so far
    issued              \* observer: the tasks enqueued by replicate_put so far

vars == <<status, predecessor, successor_list, finger_table, next_finger_to_fix,
          local_storage, replication_factor, node_statuses, fail_streak, clock_late,
          wedged, last, acked, founder, th, owner, running, loops, stopper,
          pending_tasks, async_running, worker, attempts, issued>>

ringVars == <<predecessor, successor_list, finger_table, next_finger_to_fix>>
fdVars == <<node_statuses, fail_streak, clock_late>>
taskVars == <<running, loops, stopper>>
queueVars == <<pending_tasks, async_running, worker, attempts, issued>>
lockVars == <<th, owner, taskVars, queueVars>>
ghostVars == <<acked, founder>>
dataVars == <<local_storage, node_statuses, fail_streak, wedged>>
nodeVars == <<status, predecessor, successor_list, finger_table, next_finger_to_fix,
              local_storage, replication_factor, node_statuses, fail_streak, clock_late,
              wedged, last, acked, founder, taskVars, queueVars>>

\* ------------------------------------------------------- identifier utilities

in_range(id, start, end, inclusive_end) ==
    IF start = end
    THEN (IF inclusive_end THEN id = start ELSE FALSE)
    ELSE IF start < end
         THEN (id > start) /\ (IF inclusive_end THEN id <= end ELSE id < end)
         ELSE (id > start) \/ (IF inclusive_end THEN id <= end ELSE id < end)

add_power_of_two(base, power) ==
    IF power < 0 \/ power >= FINGER_TABLE_SIZE
    THEN base
    ELSE (base + 2 ^ power) % Modulus

get_finger_start(n, index) ==
    IF index < 0 \/ index >= FINGER_TABLE_SIZE THEN n ELSE add_power_of_two(n, index)

\* ------------------------------------------------------------ failure detector
\* NodeStatus.  last_seen is "epoch" (default constructed), "recent" or "old"
\* (more than max_age ago).
Absent == [present |-> FALSE, last_seen |-> "epoch", consecutive_failures |-> 0,
           is_suspected |-> FALSE, is_failed |-> FALSE]
NewStatus == [Absent EXCEPT !.present = TRUE]

Entry(fd, p) == IF fd[p].present THEN fd[p] ELSE NewStatus

Bump(c) == IF c < MaxFailures THEN c + 1 ELSE c

\* ping_node that compares the counter with > where the source has >=.
FdPingNodeStrict(fd, p, is_responsive) ==
    LET s == Entry(fd, p) IN
    IF is_responsive
    THEN [fd EXCEPT ![p] = [s EXCEPT !.last_seen = "recent", !.consecutive_failures = 0,
                                     !.is_suspected = FALSE, !.is_failed = FALSE]]
    ELSE LET c == Bump(s.consecutive_failures) IN
         [fd EXCEPT ![p] =
            IF c > failure_threshold
            THEN [s EXCEPT !.consecutive_failures = c, !.is_failed = TRUE]
            ELSE IF c > failure_threshold \div 2
                 THEN [s EXCEPT !.consecutive_failures = c, !.is_suspected = TRUE]
                 ELSE [s EXCEPT !.consecutive_failures = c]]

\* ping_node whose successful probe resets the counter and leaves is_failed as it is.
FdPingNodeStickyFailed(fd, p, is_responsive) ==
    LET s == Entry(fd, p) IN
    IF is_responsive
    THEN [fd EXCEPT ![p] = [s EXCEPT !.last_seen = "recent", !.consecutive_failures = 0,
                                     !.is_suspected = FALSE]]
    ELSE LET c == Bump(s.consecutive_failures) IN
         [fd EXCEPT ![p] =
            IF c >= failure_threshold
            THEN [s EXCEPT !.consecutive_failures = c, !.is_failed = TRUE]
            ELSE IF c >= failure_threshold \div 2
                 THEN [s EXCEPT !.consecutive_failures = c, !.is_suspected = TRUE]
                 ELSE [s EXCEPT !.consecutive_failures = c]]

\* FailureDetector::ping_node, given the outcome of ping_node_impl.
FdPingNode(fd, p, is_responsive) ==
    LET s == Entry(fd, p) IN
    IF is_responsive
    THEN [fd EXCEPT ![p] = [s EXCEPT !.last_seen = "recent", !.consecutive_failures = 0,
                                     !.is_suspected = FALSE, !.is_failed = FALSE]]
    ELSE LET c == Bump(s.consecutive_failures) IN
         [fd EXCEPT ![p] =
            IF c >= failure_threshold
            THEN [s EXCEPT !.consecutive_failures = c, !.is_failed = TRUE]
            ELSE IF c >= failure_threshold \div 2
                 THEN [s EXCEPT !.consecutive_failures = c, !.is_suspected = TRUE]
                 ELSE [s EXCEPT !.consecutive_failures = c]]

FdMarkNodeResponsive(fd, p) ==
    [fd EXCEPT ![p] = [Entry(fd, p) EXCEPT !.last_seen = "recent", !.consecutive_failures = 0,
                                            !.is_suspected = FALSE, !.is_failed = FALSE]]

\* A mark that raises the flag and leaves the counter where it was.
FdMarkNodeFailedFlagOnly(fd, p) ==
    [fd EXCEPT ![p] = [Entry(fd, p) EXCEPT !.is_failed = TRUE]]

FdMarkNodeFailed(fd, p) ==
    [fd EXCEPT ![p] = [Entry(fd, p) EXCEPT !.is_failed = TRUE,
                                            !.consecutive_failures = failure_threshold]]

is_node_failed(fd, p) == fd[p].present /\ fd[p].is_failed

is_node_suspected(fd, p) == fd[p].present /\ fd[p].is_suspected

\* FailureDetector::cleanup_old_entries: last_seen < now - max_age.
Stale(s, late) == s.last_seen = "old" \/ (s.last_seen = "epoch" /\ late)

FdCleanupOldEntries(fd, late) ==
    [p \in DOMAIN fd |-> IF fd[p].present /\ Stale(fd[p], late) THEN Absent ELSE fd[p]]

\* ------------------------------------------------------------------ ring node

\* The routing state of node n: predecessor, successor_list and finger_table.
Routing(n) == [pred |-> predecessor[n], succ |-> successor_list[n], fingers |-> finger_table[n]]

Connectable(p) == status[p] = "up"

\* is_responsible_for_key over the open interval (predecessor, self).
is_responsible_for_key_exclusive(rt, n, key_id) ==
    IF rt.pred = Nil
    THEN TRUE
    ELSE in_range(key_id, rt.pred, n, FALSE)

\* ChordNode::is_responsible_for_key
is_responsible_for_key(rt, n, key_id) ==
    IF rt.pred = Nil
    THEN TRUE
    ELSE in_range(key_id, rt.pred, n, TRUE)

\* ChordNode::closest_preceding_node: the highest finger strictly between self and id.
RECURSIVE ClosestFrom(_, _, _, _)
ClosestFrom(rt, n, id, i) ==
    IF i < 0
    THEN n
    ELSE LET finger == rt.fingers[i] IN
         IF finger # Nil /\ finger # n /\ in_range(finger, n, id, FALSE)
         THEN finger
         ELSE ClosestFrom(rt, n, id, i - 1)

closest_preceding_node(rt, n, id) == ClosestFrom(rt, n, id, FINGER_TABLE_SIZE - 1)

\* The context a handler works on: every node's store and failure detector, the
\* nodes whose routing mutex is deadlocked, and the probe observer.
Ctx == [store |-> local_storage, fd |-> node_statuses, wedged |-> wedged,
        streak |-> fail_streak]

StreakUp(G, n, p) ==
    [G.streak EXCEPT ![n][p] = Bump(G.streak[n][p])]

\* ChordNode::contact_node: the node itself when it accepts the connection, Nil
\* (nullptr) otherwise; every operation returns the contacted node.
contact_node(n, node, G) ==
    IF node = Nil \/ node = n
    THEN [node |-> n, G |-> G]
    ELSE IF ~Connectable(node)
         THEN [node |-> Nil,
               G |-> [G EXCEPT !.fd[n] = FdMarkNodeFailed(G.fd[n], node),
                               !.streak = StreakUp(G, n, node)]]
         ELSE [node |-> node,
               G |-> [G EXCEPT !.fd[n] = FdMarkNodeResponsive(G.fd[n], node),
                               !.streak[n][node] = 0]]

\* ChordNode::find_successor.  closest_preceding_node locks the routing mutex that
\* find_successor already holds: with deadlock the thread hangs holding it,
\* otherwise the lookup goes on.
find_successor(rt, n, id, G, deadlock) ==
    IF is_responsible_for_key(rt, n, id)
    THEN [node |-> n, G |-> G, hung |-> FALSE]
    ELSE IF in_range(id, n, rt.succ[1], TRUE)
         THEN [node |-> rt.succ[1], G |-> G, hung |-> FALSE]
         ELSE IF deadlock
              THEN [node |-> Nil, G |-> [G EXCEPT !.wedged[n] = TRUE], hung |-> TRUE]
              ELSE LET closest == closest_preceding_node(rt, n, id) IN
                   IF closest # n
                   THEN LET c == contact_node(n, closest, G) IN
                        [node |-> c.node, G |-> c.G, hung |-> FALSE]
                   ELSE [node |-> rt.succ[1], G |-> G, hung |-> FALSE]

\* ChordNode::get_replica_nodes
RECURSIVE ReplicasFrom(_, _, _)
ReplicasFrom(rt, n, i) ==
    IF ~(i < replication_factor - 1 /\ i < SUCCESSOR_LIST_SIZE)
    THEN <<>>
    ELSE LET s == rt.succ[i + 1] IN
         (IF s # Nil /\ s # n THEN <<s>> ELSE <<>>) \o ReplicasFrom(rt, n, i + 1)

\* get_replica_nodes without the test against self_info.
get_replica_nodes_with_self(rt, n) ==
    SelectSeq(SubSeq(rt.succ, 1, IF replication_factor - 1 < SUCCESSOR_LIST_SIZE
                                 THEN replication_factor - 1 ELSE SUCCESSOR_LIST_SIZE),
              LAMBDA x : x # Nil)

get_replica_nodes(rt, n) == ReplicasFrom(rt, n, 0)

\* The keys a store holds, and Storage::get_keys_in_range under the predicate of
\* ChordNode::transfer_keys_to_node, which reads predecessor (seen) without the lock.
KeysOf(store) == {k \in Key : store[k] # NoValue}

KeysToTransfer(store, seen, target) ==
    {k \in KeysOf(store) : seen # Nil /\ in_range(k, seen, target, TRUE)}

\* ChordNode::transfer_keys_to_node: every selected key is removed from the local
\* store; nothing is sent to the target.
transfer_keys_to_node(n, target, seen, store) ==
    IF target = Nil \/ target = n
    THEN store
    ELSE [k \in Key |-> IF k \in KeysToTransfer(store, seen, target) THEN NoValue ELSE store[k]]

\* ---------------------------------------------------------- data operations
\* A handler's outcome: the response status ("NoReply" when the handler never
\* answers), the value, the context it leaves behind, and how the replication
\* of the primary's own write ended (none / ok / failed / hung).  log lists the
\* remote requests a ReplicationManager call sent, in order, with their answers.

Reply(st, val, G, repl) ==
    [st |-> st, val |-> val, G |-> G, repl |-> repl, to |-> Nil, log |-> <<>>]

Sent(target, st) == <<[to |-> target, st |-> st]>>

RECURSIVE handle_chord_operation(_, _, _, _, _, _)
RECURSIVE store_key(_, _, _, _, _)
RECURSIVE retrieve_key(_, _, _, _)
RECURSIVE remove_key(_, _, _, _)
RECURSIVE replicate_put(_, _, _, _, _, _, _)
RECURSIVE replicate_put_best_effort(_, _, _, _, _, _, _)
RECURSIVE replicate_delete(_, _, _, _, _, _)
RECURSIVE get_from_replicas(_, _, _, _, _)

\* Client::connect followed by one request and the wait for its response.
ClientCall(target, op, k, v, G, deadlock) ==
    IF ~Connectable(target)
    THEN Reply("ConnectFailed", NoValue, G, "none")
    ELSE handle_chord_operation(target, op, k, v, G, deadlock)

\* replicate_put as with enable_async_replication: the task is queued and the call
\* returns true at once.
replicate_put_async(k, v, replicas, i, successful, G, deadlock) ==
    Reply("ok", NoValue, G, "none")

\* replicate_put that is content with one successful replica.
replicate_put_best_effort(k, v, replicas, i, successful, G, deadlock) ==
    LET required == IF replication_factor - 1 < Len(replicas)
                    THEN replication_factor - 1 ELSE Len(replicas) IN
    IF i > required
    THEN Reply(IF successful > 0 \/ required = 0 THEN "ok" ELSE "failed", NoValue, G, "none")
    ELSE IF replicas[i] = Nil
    THEN replicate_put_best_effort(k, v, replicas, i + 1, successful, G, deadlock)
    ELSE LET c == ClientCall(replicas[i], "PUT", k, v, G, deadlock) IN
         IF c.st = "NoReply"
         THEN [Reply("hung", NoValue, c.G, "none") EXCEPT !.log = Sent(replicas[i], c.st)]
         ELSE LET rest == replicate_put_best_effort(k, v, replicas, i + 1,
                              IF c.st = "SUCCESS" THEN successful + 1 ELSE successful,
                              c.G, deadlock) IN
              [rest EXCEPT !.log = Sent(replicas[i], c.st) \o @]

\* ReplicationManager::replicate_put, synchronous mode: replicas i..required.  An
\* entry that is null is skipped and not counted.  PutNext is the rest of the loop
\* once send_replication_request to replica i has ended with the outcome c.
PutNext(k, v, replicas, i, successful, c, deadlock) ==
    IF c.st = "NoReply"
    THEN [Reply("hung", NoValue, c.G, "none") EXCEPT !.log = Sent(replicas[i], c.st)]
    ELSE [replicate_put(k, v, replicas, i + 1,
                        IF c.st = "SUCCESS" THEN successful + 1 ELSE successful,
                        c.G, deadlock) EXCEPT !.log = Sent(replicas[i], c.st) \o @]

replicate_put(k, v, replicas, i, successful, G, deadlock) ==
    LET required == IF replication_factor - 1 < Len(replicas)
                    THEN replication_factor - 1 ELSE Len(replicas) IN
    IF i > required
    THEN Reply(IF successful = required THEN "ok" ELSE "failed", NoValue, G, "none")
    ELSE IF replicas[i] = Nil
    THEN replicate_put(k, v, replicas, i + 1, successful, G, deadlock)
    ELSE PutNext(k, v, replicas, i, successful,
                 ClientCall(replicas[i], "PUT", k, v, G, deadlock), deadlock)

\* ReplicationManager::replicate_delete, synchronous mode.  DeleteNext is the rest of
\* the loop once send_replication_request to replica i has ended with the outcome c.
DeleteNext(k, replicas, i, successful, c, deadlock) ==
    IF c.st = "NoReply"
    THEN [Reply("hung", NoValue, c.G, "none") EXCEPT !.log = Sent(replicas[i], c.st)]
    ELSE [replicate_delete(k, replicas, i + 1,
                           IF c.st = "SUCCESS" THEN successful + 1 ELSE successful,
                           c.G, deadlock) EXCEPT !.log = Sent(replicas[i], c.st) \o @]

replicate_delete(k, replicas, i, successful, G, deadlock) ==
    LET required == IF replication_factor - 1 < Len(replicas)
                    THEN replication_factor - 1 ELSE Len(replicas) IN
    IF i > required
    THEN Reply(IF successful = required THEN "ok" ELSE "failed", NoValue, G, "none")
    ELSE IF replicas[i] = Nil
    THEN replicate_delete(k, replicas, i + 1, successful, G, deadlock)
    ELSE DeleteNext(k, replicas, i, successful,
                    ClientCall(replicas[i], "DELETE", k, NoValue, G, deadlock), deadlock)

\* ReplicationManager::get_from_replicas: the first replica that answers SUCCESS.
get_from_replicas(k, replicas, i, G, deadlock) ==
    IF i > Len(replicas)
    THEN Reply("failed", NoValue, G, "none")
    ELSE IF replicas[i] = Nil
    THEN get_from_replicas(k, replicas, i + 1, G, deadlock)
    ELSE LET c == ClientCall(replicas[i], "GET", k, NoValue, G, deadlock) IN
         IF c.st = "NoReply"
         THEN [Reply("hung", NoValue, c.G, "none") EXCEPT !.log = Sent(replicas[i], c.st)]
         ELSE IF c.st = "SUCCESS"
              THEN [Reply("ok", c.val, c.G, "none") EXCEPT !.log = Sent(replicas[i], c.st)]
              ELSE LET rest == get_from_replicas(k, replicas, i + 1, c.G, deadlock) IN
                   [rest EXCEPT !.log = Sent(replicas[i], c.st) \o @]

\* The forwarding branch shared by store_key, retrieve_key and remove_key.
Forward(n, op, k, v, G, deadlock) ==
    LET f == find_successor(Routing(n), n, k, G, deadlock) IN
    IF f.hung
    THEN Reply("hung", NoValue, f.G, "none")
    ELSE IF f.node # Nil /\ f.node # n
         THEN LET c == ClientCall(f.node, op, k, v, f.G, deadlock) IN
              Reply(IF c.st = "NoReply" THEN "hung"
                    ELSE IF c.st = "SUCCESS" THEN "ok" ELSE "failed",
                    c.val, c.G, "none")
         ELSE Reply("failed", NoValue, f.G, "none")

\* store_key as in src/chord.cpp: a failed replication is logged, the local write
\* stays and the call returns true.
store_key_keep_local(n, k, v, G, deadlock) ==
    IF is_responsible_for_key(Routing(n), n, k)
    THEN LET G1 == [G EXCEPT !.store[n][k] = v]
             replicas == get_replica_nodes(Routing(n), n) IN
         IF replicas # <<>>
         THEN LET r == replicate_put(k, v, replicas, 1, 0, G1, deadlock) IN
              IF r.st = "hung"
              THEN Reply("hung", NoValue, r.G, "hung")
              ELSE Reply("ok", NoValue, r.G, IF r.st = "ok" THEN "ok" ELSE "failed")
         ELSE Reply("ok", NoValue, G1, "none")
    ELSE Forward(n, "PUT", k, v, G, deadlock)

\* ChordNode::store_key
store_key(n, k, v, G, deadlock) ==
    IF is_responsible_for_key(Routing(n), n, k)
    THEN LET G1 == [G EXCEPT !.store[n][k] = v]
             replicas == get_replica_nodes(Routing(n), n) IN
         IF replicas # <<>>
         THEN LET r == replicate_put(k, v, replicas, 1, 0, G1, deadlock) IN
              IF r.st = "hung"
              THEN Reply("hung", NoValue, r.G, "hung")
              ELSE IF r.st # "ok"
                   THEN Reply("failed", NoValue, [r.G EXCEPT !.store[n][k] = NoValue], "failed")
                   ELSE Reply("ok", NoValue, r.G, "ok")
         ELSE Reply("ok", NoValue, G1, "none")
    ELSE Forward(n, "PUT", k, v, G, deadlock)

\* ChordNode::retrieve_key
retrieve_key(n, k, G, deadlock) ==
    IF is_responsible_for_key(Routing(n), n, k)
    THEN IF G.store[n][k] # NoValue
         THEN Reply("ok", G.store[n][k], G, "none")
         ELSE LET replicas == get_replica_nodes(Routing(n), n) IN
              IF replicas # <<>>
              THEN get_from_replicas(k, replicas, 1, G, deadlock)
              ELSE Reply("failed", NoValue, G, "none")
    ELSE Forward(n, "GET", k, NoValue, G, deadlock)

\* remove_key that reports a failed replicate_delete as a failure of the DELETE.
remove_key_strict(n, k, G, deadlock) ==
    IF is_responsible_for_key(Routing(n), n, k)
    THEN LET replicas == get_replica_nodes(Routing(n), n)
             probe == IF G.store[n][k] # NoValue \/ replicas = <<>>
                      THEN Reply(IF G.store[n][k] # NoValue THEN "ok" ELSE "failed",
                                 NoValue, G, "none")
                      ELSE get_from_replicas(k, replicas, 1, G, deadlock) IN
         IF probe.st # "ok"
         THEN Reply(probe.st, NoValue, probe.G, "none")
         ELSE LET G1 == [probe.G EXCEPT !.store[n][k] = NoValue] IN
              IF replicas # <<>>
              THEN LET r == replicate_delete(k, replicas, 1, 0, G1, deadlock) IN
                   IF r.st = "hung"
                   THEN Reply("hung", NoValue, r.G, "hung")
                   ELSE Reply(r.st, NoValue, r.G, r.st)
              ELSE Reply("ok", NoValue, G1, "none")
    ELSE Forward(n, "DELETE", k, NoValue, G, deadlock)

\* ChordNode::remove_key
remove_key(n, k, G, deadlock) ==
    IF is_responsible_for_key(Routing(n), n, k)
    THEN LET replicas == get_replica_nodes(Routing(n), n)
             probe == IF G.store[n][k] # NoValue \/ replicas = <<>>
                      THEN Reply(IF G.store[n][k] # NoValue THEN "ok" ELSE "failed",
                                 NoValue, G, "none")
                      ELSE get_from_replicas(k, replicas, 1, G, deadlock) IN
         IF probe.st # "ok"
         THEN Reply(probe.st, NoValue, probe.G, "none")
         ELSE LET G1 == [probe.G EXCEPT !.store[n][k] = NoValue] IN
              IF replicas # <<>>
              THEN LET r == replicate_delete(k, replicas, 1, 0, G1, deadlock) IN
                   IF r.st = "hung"
                   THEN Reply("hung", NoValue, r.G, "hung")
                   ELSE Reply("ok", NoValue, r.G, r.st)
              ELSE Reply("ok", NoValue, G1, "none")
    ELSE Forward(n, "DELETE", k, NoValue, G, deadlock)

\* ChordServer::handle_chord_operation for GET, PUT and DELETE.  A request to a
\* node whose routing mutex is deadlocked blocks in is_responsible_for_key.
HandleLocally(n, op, k, v, G, deadlock) ==
    LET r == IF op = "GET" THEN retrieve_key(n, k, G, deadlock)
             ELSE IF op = "PUT" THEN store_key(n, k, v, G, deadlock)
             ELSE remove_key(n, k, G, deadlock) IN
    IF r.st = "hung"
    THEN Reply("NoReply", NoValue, r.G, r.repl)
    ELSE IF r.st = "ok"
         THEN Reply("SUCCESS", r.val, r.G, r.repl)
         ELSE Reply(IF op = "PUT" THEN "ERROR" ELSE "KEY_NOT_FOUND", NoValue, r.G, r.repl)

handle_chord_operation(n, op, k, v, G, deadlock) ==
    IF G.wedged[n]
    THEN Reply("NoReply", NoValue, G, "none")
    ELSE IF ~is_responsible_for_key(Routing(n), n, k)
         THEN LET f == find_successor(Routing(n), n, k, G, deadlock) IN
              IF f.hung
              THEN Reply("NoReply", NoValue, f.G, "none")
              ELSE IF f.node # Nil /\ f.node # n
                   THEN [Reply("REDIRECT", NoValue, f.G, "none") EXCEPT !.to = f.node]
                   ELSE HandleLocally(n, op, k, v, f.G, deadlock)
         ELSE HandleLocally(n, op, k, v, G, deadlock)

\* ------------------------------------------------------------ failure handling

FirstIndex(seq, x) ==
    IF \E i \in 1..Len(seq) : seq[i] = x
    THEN CHOOSE i \in 1..Len(seq) : seq[i] = x /\ \A j \in 1..(i - 1) : seq[j] # x
    ELSE 0

\* ChordNode::verify_and_repair_replicas over the keys of the local store: the
\* lookups contact the closest preceding finger; the pings of ChordNode::ping_node
\* go through ReplicationManager::ping_node and leave no state behind.
RECURSIVE verify_and_repair_replicas(_, _, _, _)
verify_and_repair_replicas(rt, n, keys, G) ==
    IF keys = {}
    THEN G
    ELSE LET k == CHOOSE x \in keys : \A y \in keys : x <= y IN
         verify_and_repair_replicas(rt, n, keys \ {k}, find_successor(rt, n, k, G, FALSE).G)

\* handle_node_failure that leaves the finger table as it is.
handle_node_failure_keep_fingers(n, failed_node, rt, G, deadlock) ==
    LET idx == FirstIndex(rt.succ, failed_node)
        shifted == [j \in 1..SUCCESSOR_LIST_SIZE |->
                      IF idx # 0 /\ j >= idx /\ j < SUCCESSOR_LIST_SIZE
                      THEN rt.succ[j + 1] ELSE rt.succ[j]]
        rt0 == [rt EXCEPT !.succ = shifted]
    IN
    IF idx # 0 /\ deadlock
    THEN [rt |-> rt0, G |-> [G EXCEPT !.wedged[n] = TRUE], hung |-> TRUE]
    ELSE LET fs == find_successor(rt0, n, n, G, FALSE)
             succ1 == IF idx # 0 THEN [shifted EXCEPT ![SUCCESSOR_LIST_SIZE] = fs.node]
                      ELSE rt.succ
             G1 == IF idx # 0 THEN fs.G ELSE G
             rt1 == [pred |-> IF rt.pred = failed_node THEN Nil ELSE rt.pred,
                     succ |-> succ1,
                     fingers |-> rt.fingers]
             keys == KeysOf(G1.store[n])
         IN
         IF keys # {} /\ deadlock
         THEN [rt |-> rt1, G |-> [G1 EXCEPT !.wedged[n] = TRUE], hung |-> TRUE]
         ELSE [rt |-> rt1, G |-> verify_and_repair_replicas(rt1, n, keys, G1), hung |-> FALSE]

\* ChordNode::handle_node_failure, which holds the routing mutex from its first line.
\* find_successor (when the failed node is in the successor list) and
\* trigger_re_replication (when the local store is not empty) lock it again.
handle_node_failure(n, failed_node, rt, G, deadlock) ==
    LET idx == FirstIndex(rt.succ, failed_node)
        shifted == [j \in 1..SUCCESSOR_LIST_SIZE |->
                      IF idx # 0 /\ j >= idx /\ j < SUCCESSOR_LIST_SIZE
                      THEN rt.succ[j + 1] ELSE rt.succ[j]]
        rt0 == [rt EXCEPT !.succ = shifted]
    IN
    IF idx # 0 /\ deadlock
    THEN [rt |-> rt0, G |-> [G EXCEPT !.wedged[n] = TRUE], hung |-> TRUE]
    ELSE LET fs == find_successor(rt0, n, n, G, FALSE)
             succ1 == IF idx # 0 THEN [shifted EXCEPT ![SUCCESSOR_LIST_SIZE] = fs.node]
                      ELSE rt.succ
             G1 == IF idx # 0 THEN fs.G ELSE G
             rt1 == [pred |-> IF rt.pred = failed_node THEN Nil ELSE rt.pred,
                     succ |-> succ1,
                     fingers |-> [i \in DOMAIN rt.fingers |->
                                    IF rt.fingers[i] = failed_node THEN succ1[1]
                                    ELSE rt.fingers[i]]]
             keys == KeysOf(G1.store[n])
         IN
         IF keys # {} /\ deadlock
         THEN [rt |-> rt1, G |-> [G1 EXCEPT !.wedged[n] = TRUE], hung |-> TRUE]
         ELSE [rt |-> rt1, G |-> verify_and_repair_replicas(rt1, n, keys, G1), hung |-> FALSE]

\* The snapshot failure_detection_loop takes: the successors that are not self,
\* then the predecessor.
NodesToCheck(n) ==
    SelectSeq(successor_list[n], LAMBDA x : x # Nil /\ x # n)
      \o (IF predecessor[n] # Nil /\ predecessor[n] # n THEN <<predecessor[n]>> ELSE <<>>)

\* The probing loop: FailureDetector::ping_node then is_node_failed for each node.
RECURSIVE ProbeAll(_, _, _, _, _)
ProbeAll(n, nodes, i, G, failed_nodes) ==
    IF i > Len(nodes)
    THEN [G |-> G, failed_nodes |-> failed_nodes]
    ELSE LET p == nodes[i]
             ok == Connectable(p)
             fd1 == FdPingNode(G.fd[n], p, ok)
             G1 == [G EXCEPT !.fd[n] = fd1,
                             !.streak[n][p] = IF ok THEN 0 ELSE Bump(@)]
         IN ProbeAll(n, nodes, i + 1, G1,
                     IF is_node_failed(fd1, p) THEN Append(failed_nodes, p) ELSE failed_nodes)

\* The handling loop: handle_node_failure for each failed node, until one hangs.
RECURSIVE HandleAll(_, _, _, _, _, _)
HandleAll(n, failed_nodes, i, rt, G, deadlock) ==
    IF i > Len(failed_nodes)
    THEN [rt |-> rt, G |-> G, hung |-> FALSE]
    ELSE LET h == handle_node_failure(n, failed_nodes[i], rt, G, deadlock) IN
         IF h.hung THEN h ELSE HandleAll(n, failed_nodes, i + 1, h.rt, h.G, deadlock)

SelfList(n) == [i \in 1..SUCCESSOR_LIST_SIZE |-> n]
SelfFingers(n) == [i \in 0..(FINGER_TABLE_SIZE - 1) |-> n]

NoOp == [op |-> "none", node |-> Nil, peer |-> Nil, key |-> Nil, val |-> NoValue,
         status |-> "none", repl |-> "none", data |-> {}]

Up(n) == status[n] = "up" /\ ~wedged[n]


\* --------------------------------------------------------------------- actions

Seen(op, n, p, st, k, v, repl, data) ==
    [op |-> op, node |-> n, peer |-> p, key |-> k, val |-> v, status |-> st,
     repl |-> repl, data |-> data]

Entries(store) == {<<k, store[k]>> : k \in KeysOf(store)}

NoAck == [val |-> NoValue, node |-> Nil, ring |-> {}]

\* Key k was deleted (a DELETE answered SUCCESS, by acked[k].node) and no PUT of k
\* has been issued since.
Deleted(k) == acked[k].val = NoValue /\ acked[k].node # Nil

EmptyStore == [k \in Key |-> NoValue]

LockIdle == [todo |-> <<>>, held |-> <<>>, in_io |-> FALSE, stuck |-> FALSE]

Thread == {"maintenance", "worker"}

\* The maintenance threads of a node, in the order stop_maintenance joins them.
JoinOrder == <<"stabilize_thread", "fix_fingers_thread", "failure_detection_thread">>

Task == {JoinOrder[i] : i \in 1..Len(JoinOrder)}

\* pc 0: the thread does not run (not started, or its loop has returned).  in_call:
\* the thread is inside a remote call, which a peer that never answers keeps it in
\* (stuck).  Observers: late, the call began when running was already false;
\* checked, the thread has read running since its previous remote call.
TaskIdle == [pc |-> 0, in_call |-> FALSE, stuck |-> FALSE, late |-> FALSE, checked |-> FALSE]

\* The replication tasks an asynchronous manager is given, in order of their enqueueing.
MaxTasks == 1

TaskId == 1..MaxTasks

max_retries == 3

Mutex == {"queue_mutex", "routing_mutex", "storage_mutex", "replication_mutex", "fd_mutex"}

\* The state after construction of the nodes in members (ChordNode::ChordNode,
\* Storage, ReplicationManager, FailureDetector); the other nodes never run.
Start(members, rf) ==
    /\ status = [n \in Node |-> IF n \in members THEN "down" ELSE "stopped"]
    /\ predecessor = [n \in Node |-> Nil]
    /\ successor_list = [n \in Node |-> SelfList(n)]
    /\ finger_table = [n \in Node |-> SelfFingers(n)]
    /\ next_finger_to_fix = [n \in Node |-> 0]
    /\ local_storage = [n \in Node |-> EmptyStore]
    /\ replication_factor = rf
    /\ node_statuses = [n \in Node |-> [p \in Node |-> Absent]]
    /\ fail_streak = [n \in Node |-> [p \in Node |-> 0]]
    /\ clock_late = FALSE
    /\ wedged = [n \in Node |-> FALSE]
    /\ last = NoOp
    /\ acked = [k \in Key |-> NoAck]
    /\ founder = Nil
    /\ th = [t \in Thread |-> LockIdle]
    /\ owner = [m \in Mutex |-> "none"]
    /\ running = FALSE
    /\ loops = [t \in Task |-> TaskIdle]
    /\ stopper = 0
    /\ pending_tasks = <<>>
    /\ async_running = FALSE
    /\ worker = "none"
    /\ attempts = [t \in TaskId |-> 0]
    /\ issued = 0

Init == Start(Node, DefaultReplicationFactor)

\* ChordServer::create_ring: ChordNode::create, then the maintenance threads start.
\* One ring is created, by the first node that starts.
Create(n) ==
    /\ \A m \in Node : status[m] # "up"
    /\ founder = Nil
    /\ status[n] = "down"
    /\ status' = [status EXCEPT ![n] = "up"]
    /\ predecessor' = [predecessor EXCEPT ![n] = Nil]
    /\ successor_list' = [successor_list EXCEPT ![n] = SelfList(n)]
    /\ finger_table' = [finger_table EXCEPT ![n] = SelfFingers(n)]
    /\ founder' = n
    /\ last' = NoOp
    /\ UNCHANGED <<next_finger_to_fix, local_storage, replication_factor, fdVars, wedged,
                   acked, lockVars>>

\* ChordServer::join_ring through a running bootstrap node: ChordNode::join sets the
\* first successor and every finger to the bootstrap node without contacting it.
Join(n, existing_node) ==
    /\ status[n] = "down"
    /\ existing_node # n
    /\ status[existing_node] = "up"
    /\ status' = [status EXCEPT ![n] = "up"]
    /\ predecessor' = [predecessor EXCEPT ![n] = Nil]
    /\ successor_list' = [successor_list EXCEPT ![n][1] = existing_node]
    /\ finger_table' = [finger_table EXCEPT
                          ![n] = [i \in 0..(FINGER_TABLE_SIZE - 1) |-> existing_node]]
    /\ last' = NoOp
    /\ UNCHANGED <<next_finger_to_fix, local_storage, replication_factor, fdVars, wedged,
                   ghostVars, lockVars>>

\* stabilize that adopts whatever get_predecessor returned and is not the node itself,
\* a null pointer included.
stabilize_adopt_any(n, rt, G) ==
    LET successor == rt.succ[1] IN
    IF successor = Nil \/ successor = n
    THEN [successor |-> successor, G |-> G]
    ELSE LET c1 == contact_node(n, successor, G)
             x == c1.node
             successor2 == IF x # n /\ (x = Nil \/ in_range(x, n, successor, FALSE))
                           THEN x ELSE successor
             c2 == IF successor2 # Nil /\ successor2 # n
                   THEN contact_node(n, successor2, c1.G)
                   ELSE c1
         IN [successor |-> successor2, G |-> c2.G]

\* stabilize that falls back to the node itself when get_predecessor returned no
\* peer.
stabilize_fall_back_to_self(n, rt, G) ==
    LET successor == rt.succ[1] IN
    IF successor = Nil \/ successor = n
    THEN [successor |-> successor, G |-> G]
    ELSE LET c1 == contact_node(n, successor, G)
             x == c1.node
             successor2 == IF x = Nil
                           THEN n
                           ELSE IF x # n /\ in_range(x, n, successor, FALSE)
                                THEN x ELSE successor
             c2 == IF successor2 # Nil /\ successor2 # n
                   THEN contact_node(n, successor2, c1.G)
                   ELSE c1
         IN [successor |-> successor2, G |-> c2.G]

\* ChordNode::stabilize: the first successor and the context it leaves behind.
\* contact_node answers "get_predecessor" with the contacted node itself, and
\* "notify" with a ping.
stabilize(n, rt, G) ==
    LET successor == rt.succ[1] IN
    IF successor = Nil \/ successor = n
    THEN [successor |-> successor, G |-> G]
    ELSE LET c1 == contact_node(n, successor, G)
             x == c1.node
             successor2 == IF x # Nil /\ x # n /\ in_range(x, n, successor, FALSE)
                           THEN x ELSE successor
             c2 == IF successor2 # Nil /\ successor2 # n
                   THEN contact_node(n, successor2, c1.G)
                   ELSE c1
         IN [successor |-> successor2, G |-> c2.G]

\* One round of stabilize_loop.
Stabilize(n) ==
    /\ Up(n)
    /\ \E r \in {stabilize(n, Routing(n), Ctx)} :
       /\ successor_list' = [successor_list EXCEPT ![n][1] = r.successor]
       /\ node_statuses' = r.G.fd
       /\ fail_streak' = r.G.streak
    /\ last' = NoOp
    /\ UNCHANGED <<status, predecessor, finger_table, next_finger_to_fix, local_storage,
                   replication_factor, clock_late, wedged, ghostVars, lockVars>>

\* ChordNode::fix_fingers, one round of fix_fingers_loop.
FixFingers(n, deadlock) ==
    /\ Up(n)
    /\ \E finger_index \in {(next_finger_to_fix[n] + 1) % FINGER_TABLE_SIZE} :
       \E f \in {find_successor(Routing(n), n, get_finger_start(n, finger_index), Ctx,
                                deadlock)} :
          /\ next_finger_to_fix' = [next_finger_to_fix EXCEPT ![n] = finger_index]
          /\ finger_table' = IF ~f.hung /\ f.node # Nil
                             THEN [finger_table EXCEPT ![n][finger_index] = f.node]
                             ELSE finger_table
          /\ node_statuses' = f.G.fd
          /\ fail_streak' = f.G.streak
          /\ wedged' = f.G.wedged
    /\ last' = NoOp
    /\ UNCHANGED <<status, predecessor, successor_list, local_storage, replication_factor,
                   clock_late, ghostVars, lockVars>>

\* The values the unlocked read of predecessor in transfer_keys_to_node can return
\* when notify(node) runs it: the value notify just wrote, or what a concurrent
\* handle_node_failure (nullptr) or notify of a closer node writes meanwhile.
RacyPredecessor(n, node) ==
    {node, Nil} \cup {q \in Node \ {n, node} : status[q] = "up" /\ in_range(q, node, n, FALSE)}

\* notify that takes a new predecessor only while it knows none.
notify_only_when_unknown(n, pred, node) ==
    IF node = Nil \/ node = n
    THEN [predecessor |-> pred, predecessor_changed |-> FALSE]
    ELSE IF pred = Nil
         THEN [predecessor |-> node, predecessor_changed |-> TRUE]
         ELSE [predecessor |-> pred, predecessor_changed |-> FALSE]

\* ChordNode::notify up to the release of the routing mutex: the predecessor of node
\* n, which was pred, after notify(node), and whether it was written.
notify(n, pred, node) ==
    IF node = Nil \/ node = n
    THEN [predecessor |-> pred, predecessor_changed |-> FALSE]
    ELSE IF pred = Nil \/ in_range(node, pred, n, FALSE)
         THEN [predecessor |-> node, predecessor_changed |-> TRUE]
         ELSE [predecessor |-> pred, predecessor_changed |-> FALSE]

\* ChordNode::notify, reached through the NOTIFY request of a running peer.
Notify(n, node, seen) ==
    /\ Up(n)
    /\ node # n
    /\ status[node] = "up"
    /\ seen \in RacyPredecessor(n, node)
    /\ \E predecessor_changed \in {notify(n, predecessor[n], node).predecessor_changed} :
       \E store1 \in {IF predecessor_changed
                       THEN transfer_keys_to_node(n, node, seen, local_storage[n])
                       ELSE local_storage[n]} :
          /\ predecessor_changed \/ seen = node
          /\ predecessor' = IF predecessor_changed
                            THEN [predecessor EXCEPT ![n] = node]
                            ELSE predecessor
          /\ local_storage' = [local_storage EXCEPT ![n] = store1]
          /\ last' = Seen("notify", n, node,
                          IF predecessor_changed THEN "changed" ELSE "unchanged",
                          Nil, NoValue, "none",
                          Entries(local_storage[n]) \ Entries(store1))
    /\ UNCHANGED <<status, successor_list, finger_table, next_finger_to_fix,
                   replication_factor, fdVars, wedged, ghostVars, lockVars>>

\* A client connects to node n and sends one request (ChordServer::handle_chord_operation).
\* last.data of a DELETE is the set of nodes that held the key when the request came,
\* last.data of a PUT the value every node held for the key when the request came.
ClientRequest(n, op, k, v, deadlock) ==
    /\ status[n] = "up"
    /\ \E r \in {handle_chord_operation(n, op, k, v, Ctx, deadlock)} :
       /\ local_storage' = r.G.store
       /\ node_statuses' = r.G.fd
       /\ fail_streak' = r.G.streak
       /\ wedged' = r.G.wedged
       /\ last' = Seen(op, n, r.to, r.st, k, IF op = "GET" THEN r.val ELSE v, r.repl,
                       IF op = "DELETE" THEN {m \in Node : local_storage[m][k] # NoValue}
                       ELSE IF op = "PUT" THEN [m \in Node |-> local_storage[m][k]] ELSE {})
       /\ acked' = IF op = "PUT"
                   THEN IF r.st = "SUCCESS"
                        THEN [acked EXCEPT ![k] = [val |-> v, node |-> n,
                                                      ring |-> {m \in Node : status[m] = "up"}]]
                        ELSE IF Deleted(k) THEN [acked EXCEPT ![k] = NoAck] ELSE acked
                   ELSE IF op = "DELETE" /\ r.st = "SUCCESS"
                        THEN [acked EXCEPT ![k] = [NoAck EXCEPT !.node = n]]
                        ELSE acked
    /\ UNCHANGED <<status, ringVars, replication_factor, clock_late, founder, lockVars>>

ClientPut(n, k, v, deadlock) == ClientRequest(n, "PUT", k, v, deadlock)

\* A direct call of ReplicationManager::replicate_put (synchronous configuration) with
\* a replica list of the caller's choice.  last.data keeps the list and the requests
\* the call sent.
MaxReplicas == 2

\* The direct calls all write one entry: replicate_put looks at neither key nor value.
ReplicatedKey == CHOOSE k \in Key : \A j \in Key : k <= j

ReplicatedValue == "v1"

ReplicaLists == UNION {[1..m -> Node] : m \in 0..MaxReplicas}

ReplicatePut(k, v, replicas, deadlock) ==
    /\ \E r \in {replicate_put(k, v, replicas, 1, 0, Ctx, deadlock)} :
       /\ local_storage' = r.G.store
       /\ node_statuses' = r.G.fd
       /\ fail_streak' = r.G.streak
       /\ wedged' = r.G.wedged
       /\ last' = Seen("replicate_put", Nil, Nil, r.st, k, v, "none",
                       [replicas |-> replicas, log |-> r.log])
    /\ UNCHANGED <<status, ringVars, replication_factor, clock_late, ghostVars, lockVars>>

ClientGet(n, k, deadlock) == ClientRequest(n, "GET", k, NoValue, deadlock)

ClientDelete(n, k, deadlock) == ClientRequest(n, "DELETE", k, NoValue, deadlock)

\* The process of node n exits: everything it held in memory is gone.
Exit(n) ==
    /\ status' = [status EXCEPT ![n] = "stopped"]
    /\ predecessor' = [predecessor EXCEPT ![n] = Nil]
    /\ successor_list' = [successor_list EXCEPT ![n] = SelfList(n)]
    /\ finger_table' = [finger_table EXCEPT ![n] = SelfFingers(n)]
    /\ next_finger_to_fix' = [next_finger_to_fix EXCEPT ![n] = 0]
    /\ local_storage' = [local_storage EXCEPT ![n] = EmptyStore]
    /\ node_statuses' = [node_statuses EXCEPT ![n] = [p \in Node |-> Absent]]
    /\ fail_streak' = [fail_streak EXCEPT ![n] = [p \in Node |-> 0]]
    /\ wedged' = [wedged EXCEPT ![n] = FALSE]

\* ChordServer::leave_ring: ChordNode::leave (stop_maintenance, then under the routing
\* mutex transfer_keys_to_node(successor) and the reset to a single node), followed
\* by the shutdown of the process.  transfer_keys_to_node sends nothing, so no
\* other node's store changes.  last.data is the store the node left with.
Leave(n) ==
    /\ Up(n)
    /\ last' = Seen("leave", n, successor_list[n][1], "left", Nil, NoValue, "none",
                    Entries(local_storage[n]))
    /\ Exit(n)
    /\ UNCHANGED <<replication_factor, clock_late, ghostVars, lockVars>>

\* The process of node n is stopped or killed (ChordServer::stop, a crash).
Stop(n) ==
    /\ status[n] = "up"
    /\ Exit(n)
    /\ last' = Seen("stop", n, Nil, "stopped", Nil, NoValue, "none", {})
    /\ UNCHANGED <<replication_factor, clock_late, ghostVars, lockVars>>

\* One round of ChordNode::failure_detection_loop: probe the snapshot, handle every
\* failed node, then FailureDetector::cleanup_old_entries.
FailureDetection(n, deadlock) ==
    /\ Up(n)
    /\ \E probed \in {ProbeAll(n, NodesToCheck(n), 1, Ctx, <<>>)} :
       \E h \in {HandleAll(n, probed.failed_nodes, 1, Routing(n), probed.G, deadlock)} :
          /\ deadlock => h.hung
          /\ predecessor' = [predecessor EXCEPT ![n] = h.rt.pred]
          /\ successor_list' = [successor_list EXCEPT ![n] = h.rt.succ]
          /\ finger_table' = [finger_table EXCEPT ![n] = h.rt.fingers]
          /\ node_statuses' = IF h.hung THEN h.G.fd
                              ELSE [h.G.fd EXCEPT ![n] = FdCleanupOldEntries(@, clock_late)]
          /\ fail_streak' = h.G.streak
          /\ wedged' = h.G.wedged
          /\ last' = Seen("failure_detection", n, Nil,
                          IF h.hung THEN "hung" ELSE "done", Nil, NoValue, "none",
                          {<<NodesToCheck(n)[i],
                             IF FirstIndex(probed.failed_nodes, NodesToCheck(n)[i]) > 0
                             THEN "failed" ELSE "alive">> :
                             i \in 1..Len(NodesToCheck(n))})
    /\ UNCHANGED <<status, next_finger_to_fix, local_storage, replication_factor,
                   clock_late, ghostVars, lockVars>>

\* max_age (30 minutes) passes: every recorded contact becomes old, and the clock is
\* more than max_age past its epoch.
Tick ==
    /\ ~clock_late \/ \E n \in Node, p \in Node : node_statuses[n][p].last_seen = "recent"
    /\ clock_late' = TRUE
    /\ node_statuses' = [n \in Node |-> [p \in Node |->
                           IF node_statuses[n][p].last_seen = "recent"
                           THEN [node_statuses[n][p] EXCEPT !.last_seen = "old"]
                           ELSE node_statuses[n][p]]]
    /\ last' = NoOp
    /\ UNCHANGED <<status, ringVars, local_storage, replication_factor, fail_streak,
                   wedged, ghostVars, lockVars>>

\* ------------------------------------------------------------ mutexes of a node
\* The threads of one node as sequences of events: <<"acq", m>> and <<"rel", m>>
\* for the scope of a std::lock_guard on mutex m, <<"io", "net">> for a connect,
\* a request or a ping.

Acq(m) == <<"acq", m>>
Rel(m) == <<"rel", m>>
NetIO == <<"io", "net">>

\* A read or write of predecessor, successor_list, finger_table or next_finger_to_fix.
Use == <<"use", "routing_mutex">>

Guarded(m, body) == <<Acq(m)>> \o body \o <<Rel(m)>>

RECURSIVE Times(_, _)
Times(count, events) == IF count = 0 THEN <<>> ELSE events \o Times(count - 1, events)

\* The Lock Ordering Protocol: queue_mutex, routing_mutex, Storage::mutex,
\* ReplicationManager::mutex, FailureDetector::mutex.
Rank(m) ==
    CASE m = "queue_mutex" -> 1
      [] m = "routing_mutex" -> 2
      [] m = "storage_mutex" -> 3
      [] m = "replication_mutex" -> 4
      [] m = "fd_mutex" -> 5

is_responsible_for_key_locks == Guarded("routing_mutex", <<Use>>)

closest_preceding_node_locks == Guarded("routing_mutex", <<Use>>)

\* contact_node: connect, then mark_node_failed or mark_node_responsive, then the
\* ping of "notify".
contact_node_locks(operation, connected) ==
    <<NetIO>> \o Guarded("fd_mutex", <<>>)
      \o (IF connected /\ operation = "notify" THEN <<NetIO>> ELSE <<>>)

FindBranch == {"self", "successor", "finger", "no_finger"}

find_successor_locks(branch) ==
    is_responsible_for_key_locks
      \o (IF branch = "self" THEN <<>>
          ELSE Guarded("routing_mutex",
                 <<Use>>
                   \o (IF branch = "successor" THEN <<>>
                       ELSE closest_preceding_node_locks
                              \o (IF branch = "finger"
                                  THEN contact_node_locks("find_successor", TRUE)
                                  ELSE <<>>))))

stabilize_locks(alone) ==
    Guarded("routing_mutex", <<Use>>)
      \o (IF alone THEN <<>>
          ELSE contact_node_locks("get_predecessor", TRUE)
                 \o Guarded("routing_mutex", <<Use>>)
                 \o contact_node_locks("notify", TRUE))

fix_fingers_locks(branch) ==
    Guarded("routing_mutex", <<Use>>) \o find_successor_locks(branch)
      \o Guarded("routing_mutex", <<Use>>)

get_replica_nodes_locks ==
    Guarded("routing_mutex", <<Use>> \o Guarded("replication_mutex", <<>>))

\* transfer_keys_to_node: Storage::get_keys_in_range runs the predicate, which reads
\* predecessor, under the store mutex, then one Storage::remove per key.
transfer_keys_to_node_locks(keys) ==
    Guarded("storage_mutex", <<Use>>) \o Times(keys, Guarded("storage_mutex", <<>>))

notify_locks(changed, keys) ==
    Guarded("routing_mutex", <<Use>>)
      \o (IF changed THEN transfer_keys_to_node_locks(keys) ELSE <<>>)

leave_locks(keys) ==
    Guarded("routing_mutex", <<Use>> \o transfer_keys_to_node_locks(keys) \o <<Use>>)

\* replicate_put in synchronous mode: the request, then the timestamp under the mutex.
replicate_put_locks == <<NetIO>> \o Guarded("replication_mutex", <<>>)

\* store_key on the primary: local put, replicas, replication, rollback on failure.
store_key_locks(replicated, failed) ==
    is_responsible_for_key_locks \o Guarded("storage_mutex", <<>>)
      \o get_replica_nodes_locks
      \o (IF replicated
          THEN replicate_put_locks
                 \o (IF failed THEN Guarded("storage_mutex", <<>>) ELSE <<>>)
          ELSE <<>>)

\* ReplicationManager::handle_replica_failure: send_replication_request inside the
\* scope of the lock.
handle_replica_failure_locks(keys) ==
    Guarded("replication_mutex", Times(keys, <<NetIO>>))

\* verify_and_repair_replicas for keys this node is primary for: lookup, replicas,
\* one ping per replica (ReplicationManager::ping_node), replication factor.
verify_and_repair_replicas_locks(keys) ==
    Guarded("storage_mutex", <<>>)
      \o Times(keys, find_successor_locks("self") \o get_replica_nodes_locks
                       \o <<NetIO>> \o Guarded("replication_mutex", <<>>))

trigger_re_replication_locks(keys) ==
    Guarded("storage_mutex", <<>>)
      \o Times(keys, is_responsible_for_key_locks \o get_replica_nodes_locks
                       \o Guarded("replication_mutex", <<>>)
                       \o Guarded("storage_mutex", <<>>))
      \o verify_and_repair_replicas_locks(keys)

handle_node_failure_locks(in_successor_list, keys) ==
    Guarded("routing_mutex",
            <<Use>>
              \o (IF in_successor_list THEN find_successor_locks("self") ELSE <<>>)
              \o <<Use>>
              \o trigger_re_replication_locks(keys))

\* One round of failure_detection_loop over one node: snapshot, ping_node
\* (ping_node_impl before the lock), is_node_failed, handling, cleanup.
failure_detection_locks(failed, in_successor_list, keys) ==
    Guarded("routing_mutex", <<Use>>)
      \o <<NetIO>> \o Guarded("fd_mutex", <<>>) \o Guarded("fd_mutex", <<>>)
      \o (IF failed THEN handle_node_failure_locks(in_successor_list, keys) ELSE <<>>)
      \o Guarded("fd_mutex", <<>>)

\* ThreadPool::worker_thread: the task is taken under queue_mutex and run outside it.
worker_thread_locks(task) == Guarded("queue_mutex", <<>>) \o task

MaxKeys == 1

Operations(t) ==
    IF t = "maintenance"
    THEN {stabilize_locks(alone) : alone \in BOOLEAN}
           \cup {fix_fingers_locks(b) : b \in FindBranch}
           \cup {failure_detection_locks(f, i, k) :
                   f \in BOOLEAN, i \in BOOLEAN, k \in 0..MaxKeys}
    ELSE {worker_thread_locks(notify_locks(c, k)) : c \in BOOLEAN, k \in 0..MaxKeys}
           \cup {worker_thread_locks(store_key_locks(r, f)) : r \in BOOLEAN, f \in BOOLEAN}
           \cup {worker_thread_locks(find_successor_locks(b)) : b \in FindBranch}
           \cup {leave_locks(k) : k \in 0..MaxKeys}
           \cup {handle_replica_failure_locks(k) : k \in 0..MaxKeys}

Busy(t) == th[t].todo # <<>>

NextEvent(t) == Head(th[t].todo)

\* The thread starts one of its operations.
Begin(t, events) ==
    /\ ~Busy(t)
    /\ events \in Operations(t)
    /\ events # <<>>
    /\ th' = [th EXCEPT ![t] = [todo |-> events, held |-> <<>>, in_io |-> FALSE,
                                stuck |-> FALSE]]
    /\ UNCHANGED <<owner, nodeVars>>

\* std::mutex::lock on a free mutex.
Lock(t) ==
    /\ Busy(t)
    /\ NextEvent(t)[1] = "acq"
    /\ owner[NextEvent(t)[2]] = "none"
    /\ owner' = [owner EXCEPT ![NextEvent(t)[2]] = t]
    /\ th' = [th EXCEPT ![t].todo = Tail(@), ![t].held = Append(@, NextEvent(t)[2]),
                        ![t].in_io = FALSE]
    /\ UNCHANGED nodeVars

\* std::mutex::lock by the thread that owns the mutex: undefined behaviour; the
\* thread deadlocks on itself, or the lock goes through.
Relock(t, deadlock) ==
    /\ Busy(t)
    /\ ~th[t].stuck
    /\ NextEvent(t)[1] = "acq"
    /\ owner[NextEvent(t)[2]] = t
    /\ th' = IF deadlock
             THEN [th EXCEPT ![t].stuck = TRUE, ![t].in_io = FALSE]
             ELSE [th EXCEPT ![t].todo = Tail(@), ![t].held = Append(@, NextEvent(t)[2]),
                             ![t].in_io = FALSE]
    /\ UNCHANGED <<owner, nodeVars>>

RemoveLast(seq, m) ==
    LET i == CHOOSE j \in 1..Len(seq) : seq[j] = m /\ \A l \in (j + 1)..Len(seq) : seq[l] # m
    IN SubSeq(seq, 1, i - 1) \o SubSeq(seq, i + 1, Len(seq))

Holds(t, m) == \E i \in 1..Len(th[t].held) : th[t].held[i] = m

\* The end of a lock_guard scope.
Unlock(t) ==
    /\ Busy(t)
    /\ NextEvent(t)[1] = "rel"
    /\ Holds(t, NextEvent(t)[2])
    /\ \E held1 \in {RemoveLast(th[t].held, NextEvent(t)[2])} :
         /\ th' = [th EXCEPT ![t].todo = Tail(@), ![t].held = held1, ![t].in_io = FALSE]
         /\ owner' = [owner EXCEPT ![NextEvent(t)[2]] =
                        IF \E i \in 1..Len(held1) : held1[i] = NextEvent(t)[2]
                        THEN t ELSE "none"]
    /\ UNCHANGED nodeVars

\* A connect, a request or a ping.
NetworkIO(t) ==
    /\ Busy(t)
    /\ NextEvent(t)[1] = "io"
    /\ th' = [th EXCEPT ![t].todo = Tail(@), ![t].in_io = TRUE]
    /\ UNCHANGED <<owner, nodeVars>>

\* A read or write of the routing state.
Access(t) ==
    /\ Busy(t)
    /\ NextEvent(t)[1] = "use"
    /\ th' = [th EXCEPT ![t].todo = Tail(@), ![t].in_io = FALSE]
    /\ UNCHANGED <<owner, nodeVars>>

NextLocks ==
    \/ \E t \in Thread, events \in UNION {Operations(u) : u \in Thread} : Begin(t, events)
    \/ \E t \in Thread : Access(t)
    \/ \E t \in Thread : Lock(t)
    \/ \E t \in Thread, d \in BOOLEAN : Relock(t, d)
    \/ \E t \in Thread : Unlock(t)
    \/ \E t \in Thread : NetworkIO(t)

SpecLocks == Init /\ [][NextLocks]_vars

\* ------------------------------------------------- maintenance threads of a node
\* Each loop as its reads of running and its remote calls, in source order:
\* "while" is the loop condition, "check" an `if (!running.load()) break;`, "call"
\* a contact_node / ping_node / handle_node_failure that goes to the network,
\* "sleep" interruptible_sleep.
Program(t) ==
    CASE t = "stabilize_thread" -> <<"while", "call", "call", "sleep">>
      [] t = "fix_fingers_thread" -> <<"while", "call", "sleep">>
      [] t = "failure_detection_thread" ->
             <<"while", "check", "call", "check", "call", "sleep">>

Instruction(t) == Program(t)[loops[t].pc]

otherVars == <<status, predecessor, successor_list, finger_table, next_finger_to_fix,
               local_storage, replication_factor, node_statuses, fail_streak, clock_late,
               wedged, last, acked, founder, th, owner, queueVars>>

\* ChordNode::start_maintenance
StartMaintenance ==
    /\ ~running
    /\ stopper \in {0, Len(JoinOrder) + 1}
    /\ running' = TRUE
    /\ loops' = [t \in Task |-> [TaskIdle EXCEPT !.pc = 1]]
    /\ stopper' = 0
    /\ UNCHANGED otherVars

\* ChordNode::stop_maintenance up to the first join: the flag and the notify_all.
StopMaintenance ==
    /\ running
    /\ stopper = 0
    /\ running' = FALSE
    /\ stopper' = 1
    /\ UNCHANGED <<loops, otherVars>>

\* ChordNode::stop_maintenance: thread.join() returns when the thread's loop has.
JoinThread ==
    /\ stopper \in 1..Len(JoinOrder)
    /\ loops[JoinOrder[stopper]].pc = 0
    /\ stopper' = stopper + 1
    /\ UNCHANGED <<running, loops, otherVars>>

\* A read of running by thread t: loop condition, break test or interruptible_sleep.
TaskCheck(t) ==
    /\ loops[t].pc > 0
    /\ ~loops[t].in_call
    /\ Instruction(t) # "call"
    /\ loops' = [loops EXCEPT ![t] =
          IF Instruction(t) = "while"
          THEN IF running THEN [@ EXCEPT !.pc = @ + 1, !.checked = TRUE] ELSE TaskIdle
          ELSE IF Instruction(t) = "check"
               THEN [@ EXCEPT !.pc = IF running THEN @ + 1 ELSE @ + 2, !.checked = TRUE]
               ELSE IF running THEN [@ EXCEPT !.pc = 1, !.checked = TRUE] ELSE TaskIdle]
    /\ UNCHANGED <<running, stopper, otherVars>>

\* Thread t enters a remote call; the peer answers in time or never (stuck).
TaskCall(t, never_answers) ==
    /\ loops[t].pc > 0
    /\ ~loops[t].in_call
    /\ Instruction(t) = "call"
    /\ loops' = [loops EXCEPT ![t].in_call = TRUE, ![t].stuck = never_answers,
                              ![t].late = ~running]
    /\ UNCHANGED <<running, stopper, otherVars>>

\* There is nobody to call (the successor is the node itself, no node has failed).
TaskSkip(t) ==
    /\ loops[t].pc > 0
    /\ ~loops[t].in_call
    /\ Instruction(t) = "call"
    /\ loops' = [loops EXCEPT ![t].pc = @ + 1]
    /\ UNCHANGED <<running, stopper, otherVars>>

\* The remote call of thread t returns.
TaskReturn(t) ==
    /\ loops[t].in_call
    /\ ~loops[t].stuck
    /\ loops' = [loops EXCEPT ![t] = [@ EXCEPT !.pc = @ + 1, !.in_call = FALSE,
                                                !.late = FALSE, !.checked = FALSE]]
    /\ UNCHANGED <<running, stopper, otherVars>>

NextTasks ==
    \/ StartMaintenance
    \/ StopMaintenance
    \/ JoinThread
    \/ \E t \in Task : TaskCheck(t)
    \/ \E t \in Task, never_answers \in BOOLEAN : TaskCall(t, never_answers)
    \/ \E t \in Task : TaskSkip(t)
    \/ \E t \in Task : TaskReturn(t)

SpecTasks == Init /\ [][NextTasks]_vars

Pair == {1, 4}

\* Ring formation: nodes start and join, the maintenance loops run, peers notify.
\* Nothing leaves or fails.  The maintenance loops run for ever (weak fairness).
NextRing ==
    \/ \E n \in Node : Create(n)
    \/ \E n \in Node, b \in Node : Join(n, b)
    \/ \E n \in Node : Stabilize(n)
    \/ \E n \in Node, p \in Node, seen \in Node \cup {Nil} : Notify(n, p, seen)
    \/ \E n \in Node, d \in BOOLEAN : FailureDetection(n, d)

SpecRing ==
    /\ Init
    /\ [][NextRing]_vars
    /\ \A n \in Node : WF_vars(Stabilize(n))
    /\ \A n \in Node : WF_vars(\E d \in BOOLEAN : FailureDetection(n, d))

\* The data plane: client requests against a ring of two nodes that come, notify,
\* leave and stop.
NextData ==
    \/ \E n \in Node : Create(n)
    \/ \E n \in Node, b \in Node : Join(n, b)
    \/ \E n \in Node, p \in Node, seen \in Node \cup {Nil} : Notify(n, p, seen)
    \/ \E n \in Node, k \in Key, v \in Value, d \in BOOLEAN : ClientPut(n, k, v, d)
    \/ \E n \in Node, k \in Key, d \in BOOLEAN : ClientGet(n, k, d)
    \/ \E n \in Node, k \in Key, d \in BOOLEAN : ClientDelete(n, k, d)
    \/ \E n \in Node : Leave(n)
    \/ \E n \in Node : Stop(n)

SpecData == Start(Pair, DefaultReplicationFactor) /\ [][NextData]_vars

\* ------------------------------------------------------ asynchronous replication
asyncOther == <<status, ringVars, replication_factor, clock_late, ghostVars, th, owner, taskVars>>

\* ReplicationTask(type, key, value, replicas): a new task has retry_count 0.
NewTask(type, k, v, replicas, id) ==
    [type |-> type, key |-> k, value |-> v, replicas |-> replicas, retry_count |-> 0, id |-> id]

\* ReplicationManager::process_single_task
process_single_task(task, G, deadlock) ==
    IF task.type = "PUT"
    THEN replicate_put(task.key, task.value, task.replicas, 1, 0, G, deadlock)
    ELSE replicate_delete(task.key, task.replicas, 1, 0, G, deadlock)

\* ReplicationManager::start_async_processing, which the constructor calls when
\* enable_async_replication is set.
StartAsyncProcessing ==
    /\ ~async_running
    /\ worker \in {"none", "exited"}
    /\ async_running' = TRUE
    /\ worker' = "ready"
    /\ UNCHANGED <<pending_tasks, attempts, issued, asyncOther, dataVars, last>>

\* queue_cv.notify_one and queue_cv.notify_all, with one thread that can wait: a
\* thread blocked in wait is woken, a thread anywhere else is not affected.
notify_one(w) == IF w = "waiting" THEN "ready" ELSE w

\* ReplicationManager::replicate_put with enable_async_replication: the task is
\* enqueued and the call returns true. enqueue_replication_task pushes under
\* queue_mutex, which the worker holds from its wait predicate until it blocks, and
\* notifies after the push.
AsyncReplicatePut(k, v, replicas) ==
    /\ worker # "none"
    /\ worker # "testing"
    /\ issued < MaxTasks
    /\ issued' = issued + 1
    /\ pending_tasks' = Append(pending_tasks, NewTask("PUT", k, v, replicas, issued + 1))
    /\ worker' = notify_one(worker)
    /\ last' = Seen("replicate_put", Nil, Nil, "ok", k, v, "none", {})
    /\ UNCHANGED <<async_running, attempts, asyncOther, dataVars>>

\* A queue that takes every failed task back, whatever its retry_count.
RequeueAlways(queue, task, st) ==
    IF st = "failed"
    THEN Append(Tail(queue), [task EXCEPT !.retry_count = @ + 1])
    ELSE Tail(queue)

\* The queue after a task was processed with outcome st: the task goes back to the
\* end if it failed and has retries left.
Requeue(queue, task, st) ==
    IF st = "failed" /\ task.retry_count < max_retries
    THEN Append(Tail(queue), [task EXCEPT !.retry_count = @ + 1])
    ELSE Tail(queue)

\* One turn of the inner loop of ReplicationManager::process_replication_queue: pop
\* the front task, process it, and enqueue it again if it failed and has retries left.
\* A request that is never answered keeps the thread in process_single_task.
ProcessTask(deadlock) ==
    /\ async_running
    /\ worker = "ready"
    /\ pending_tasks # <<>>
    /\ LET task == Head(pending_tasks) IN
       \E r \in {process_single_task(task, Ctx, deadlock)} :
          /\ local_storage' = r.G.store
          /\ node_statuses' = r.G.fd
          /\ fail_streak' = r.G.streak
          /\ wedged' = r.G.wedged
          /\ attempts' = [attempts EXCEPT ![task.id] = IF @ > max_retries THEN @ ELSE @ + 1]
          /\ worker' = IF r.st = "hung" THEN "stuck" ELSE "ready"
          /\ pending_tasks' = Requeue(pending_tasks, task, r.st)
          /\ last' = Seen("process_single_task", Nil, Nil, r.st, task.key, task.value,
                          "none", task)
    /\ UNCHANGED <<async_running, issued, asyncOther>>

\* The outer loop of process_replication_queue with nothing to do: the predicate of
\* queue_cv.wait is evaluated under queue_mutex and is false.
WaitPredicate ==
    /\ worker = "ready"
    /\ async_running
    /\ pending_tasks = <<>>
    /\ worker' = "testing"
    /\ UNCHANGED <<pending_tasks, async_running, attempts, issued, asyncOther, dataVars, last>>

\* queue_cv.wait after a false predicate: queue_mutex is released and the thread
\* blocks until it is notified.
WaitBlock ==
    /\ worker = "testing"
    /\ worker' = "waiting"
    /\ UNCHANGED <<pending_tasks, async_running, attempts, issued, asyncOther, dataVars, last>>

\* ReplicationManager::stop_async_processing up to the join: running is cleared and
\* queue_cv is notified, both without queue_mutex.
StopAsyncProcessing ==
    /\ async_running
    /\ async_running' = FALSE
    /\ worker' = notify_one(worker)
    /\ UNCHANGED <<pending_tasks, attempts, issued, asyncOther, dataVars, last>>

\* process_replication_queue returns: running is false.
WorkerExit ==
    /\ ~async_running
    /\ worker = "ready"
    /\ worker' = "exited"
    /\ UNCHANGED <<pending_tasks, async_running, attempts, issued, asyncOther, dataVars, last>>

\* The replica lists of the tasks: process_single_task looks at no entry beyond the
\* first replication_factor - 1.
TaskReplicaLists == {l \in ReplicaLists : Len(l) <= DefaultReplicationFactor - 1}

\* An asynchronous manager whose replicas start and stop.
NextAsync ==
    \/ \E n \in Node : Create(n)
    \/ \E n \in Node, b \in Node : Join(n, b)
    \/ \E n \in Node : Stop(n)
    \/ StartAsyncProcessing
    \/ \E replicas \in TaskReplicaLists : AsyncReplicatePut(ReplicatedKey, ReplicatedValue, replicas)
    \/ \E d \in BOOLEAN : ProcessTask(d)
    \/ WaitPredicate
    \/ WaitBlock
    \/ StopAsyncProcessing
    \/ WorkerExit

SpecAsync == Start(Pair, DefaultReplicationFactor) /\ [][NextAsync]_vars

\* A manager that is never stopped, with failure detection running on the replicas.
NextAsyncDetect ==
    \/ \E n \in Node : Create(n)
    \/ \E n \in Node, b \in Node : Join(n, b)
    \/ \E n \in Node : Stop(n)
    \/ \E n \in Node, d \in BOOLEAN : FailureDetection(n, d)
    \/ StartAsyncProcessing
    \/ \E replicas \in TaskReplicaLists : AsyncReplicatePut(ReplicatedKey, ReplicatedValue, replicas)
    \/ \E d \in BOOLEAN : ProcessTask(d)
    \/ WaitPredicate
    \/ WaitBlock

SpecAsyncDetect == Init /\ [][NextAsyncDetect]_vars

\* ReplicationManager called directly, for every replication factor up to the default.
NextReplicate ==
    \/ \E n \in Node : Create(n)
    \/ \E n \in Node, b \in Node : Join(n, b)
    \/ \E n \in Node : Stop(n)
    \/ \E replicas \in ReplicaLists, d \in BOOLEAN :
          ReplicatePut(ReplicatedKey, ReplicatedValue, replicas, d)

InitReplicate == \E rf \in 1..DefaultReplicationFactor : Start(Node, rf)

SpecReplicate == InitReplicate /\ [][NextReplicate]_vars

\* Failover in a ring of two nodes with replication factor 2.
NextFailover ==
    \/ \E n \in Node : Create(n)
    \/ \E n \in Node, b \in Node : Join(n, b)
    \/ \E n \in Node : Stabilize(n)
    \/ \E n \in Node, k \in Key, v \in Value, d \in BOOLEAN : ClientPut(n, k, v, d)
    \/ \E n \in Node, k \in Key, d \in BOOLEAN : ClientGet(n, k, d)
    \/ \E n \in Node : Stop(n)
    \/ \E n \in Node, d \in BOOLEAN : FailureDetection(n, d)

SpecFailover == Start(Pair, 2) /\ [][NextFailover]_vars

\* The failure detector under contacts, probes, cleanup and the passing of time.
NextFD ==
    \/ \E n \in Node : Create(n)
    \/ \E n \in Node, b \in Node : Join(n, b)
    \/ \E n \in Node : Stabilize(n)
    \/ \E n \in Node : Stop(n)
    \/ \E n \in Node, d \in BOOLEAN : FailureDetection(n, d)
    \/ Tick

SpecFD == Init /\ [][NextFD]_vars

\* The routing state of two nodes under joins, stops, NOTIFY requests and the three
\* maintenance loops.
NextFingers ==
    \/ \E n \in Node : Create(n)
    \/ \E n \in Node, b \in Node : Join(n, b)
    \/ \E n \in Node : Stabilize(n)
    \/ \E n \in Node, p \in Node, seen \in Node \cup {Nil} : Notify(n, p, seen)
    \/ \E n \in Node, d \in BOOLEAN : FixFingers(n, d)
    \/ \E n \in Node : Stop(n)
    \/ \E n \in Node, d \in BOOLEAN : FailureDetection(n, d)

SpecFingers == Start(Pair, DefaultReplicationFactor) /\ [][NextFingers]_vars

\* ------------------------------------------------------------ the ownership test
\* Every identifier of the space.
Id == 0..(Modulus - 1)

\* ChordNode::is_responsible_for_key called on a node with identifier n whose
\* predecessor is pred (Nil: nullptr), for the key identifier key_id.  The node
\* keeps its identifier (self_info) from call to call; its predecessor changes.
IsResponsibleForKey(n, pred, key_id) ==
    /\ last.node \in {Nil, n}
    /\ last' = Seen("is_responsible_for_key", n, pred,
                    IF is_responsible_for_key([pred |-> pred, succ |-> SelfList(n),
                                               fingers |-> SelfFingers(n)], n, key_id)
                    THEN "true" ELSE "false",
                    key_id, NoValue, "none", {})
    /\ UNCHANGED <<status, ringVars, local_storage, replication_factor, fdVars, wedged,
                   ghostVars, lockVars>>

NextOwner == \E n \in Id, pred \in Id \cup {Nil}, key_id \in Id : IsResponsibleForKey(n, pred, key_id)

SpecOwner == Init /\ [][NextOwner]_vars

\* ------------------------------------------------------------- the replica set
\* ChordNode::get_replica_nodes called on a running node; last.data is the list it
\* returned.
GetReplicaNodes(n) ==
    /\ Up(n)
    /\ last' = Seen("get_replica_nodes", n, Nil, "done", Nil, NoValue, "none",
                    get_replica_nodes(Routing(n), n))
    /\ UNCHANGED <<status, ringVars, local_storage, replication_factor, fdVars, wedged,
                   ghostVars, lockVars>>

\* The replica set of the nodes of a ring under joins, stops, stabilize and failure
\* detection, for every replication factor up to the default.
NextReplicas ==
    \/ \E n \in Node : Create(n)
    \/ \E n \in Node, b \in Node : Join(n, b)
    \/ \E n \in Node : Stabilize(n)
    \/ \E n \in Node : Stop(n)
    \/ \E n \in Node, d \in BOOLEAN : FailureDetection(n, d)
    \/ \E n \in Node : GetReplicaNodes(n)

SpecReplicas == InitReplicate /\ [][NextReplicas]_vars

\* ------------------------------------------------- the failure detector by itself
\* The calls of one FailureDetector, with the outcome of the probe (ping_node_impl)
\* and of the connect (contact_node) as inputs.  last.data is the NodeStatus of the
\* peer before the call.
DetectorVars == <<status, ringVars, local_storage, replication_factor, clock_late, wedged,
                  ghostVars, lockVars>>

\* FailureDetector::ping_node
PingNode(n, p, is_responsive) ==
    /\ node_statuses' = [node_statuses EXCEPT ![n] = FdPingNode(@, p, is_responsive)]
    /\ fail_streak' = [fail_streak EXCEPT ![n][p] = IF is_responsive THEN 0 ELSE Bump(@)]
    /\ last' = Seen("ping_node", n, p, IF is_responsive THEN "responsive" ELSE "unresponsive",
                    Nil, NoValue, "none", node_statuses[n][p])
    /\ UNCHANGED DetectorVars

\* FailureDetector::mark_node_responsive
MarkNodeResponsive(n, p) ==
    /\ node_statuses' = [node_statuses EXCEPT ![n] = FdMarkNodeResponsive(@, p)]
    /\ fail_streak' = [fail_streak EXCEPT ![n][p] = 0]
    /\ last' = Seen("mark_node_responsive", n, p, "responsive", Nil, NoValue, "none",
                    node_statuses[n][p])
    /\ UNCHANGED DetectorVars

\* FailureDetector::mark_node_failed
MarkNodeFailed(n, p) ==
    /\ node_statuses' = [node_statuses EXCEPT ![n] = FdMarkNodeFailed(@, p)]
    /\ fail_streak' = [fail_streak EXCEPT ![n][p] = Bump(@)]
    /\ last' = Seen("mark_node_failed", n, p, "unresponsive", Nil, NoValue, "none",
                    node_statuses[n][p])
    /\ UNCHANGED DetectorVars

\* The detectors of two nodes, each watching the other.
NextProbe ==
    \/ \E n \in Pair : \E p \in Pair \ {n}, is_responsive \in BOOLEAN : PingNode(n, p, is_responsive)
    \/ \E n \in Pair : \E p \in Pair \ {n} : MarkNodeResponsive(n, p)
    \/ \E n \in Pair : \E p \in Pair \ {n} : MarkNodeFailed(n, p)

SpecProbe == Init /\ [][NextProbe]_vars

\* The stabilize loop alone: nodes start, join and stop, stabilize runs, peers notify.
\* Only stabilize contacts a peer here.
NextStabilize ==
    \/ \E n \in Node : Create(n)
    \/ \E n \in Node, b \in Node : Join(n, b)
    \/ \E n \in Node : Stabilize(n)
    \/ \E n \in Node, p \in Node, seen \in Node \cup {Nil} : Notify(n, p, seen)
    \/ \E n \in Node : Stop(n)

SpecStabilize == Init /\ [][NextStabilize]_vars

\* ChordNode::notify as a function of the node, the predecessor it has and the peer
\* it is notified of.  A node keeps its identifier, and its predecessor is never the
\* node itself.
NotifyCall(n, pred, node) ==
    /\ last.node \in {Nil, n}
    /\ \E r \in {notify(n, pred, node)} :
          last' = Seen("notify_call", n, node,
                       IF r.predecessor_changed THEN "changed" ELSE "unchanged",
                       Nil, NoValue, "none", [before |-> pred, after |-> r.predecessor])
    /\ UNCHANGED <<status, ringVars, local_storage, replication_factor, fdVars, wedged,
                   ghostVars, lockVars>>

NextNotify ==
    \E n \in Id : \E pred \in (Id \ {n}) \cup {Nil}, node \in Id : NotifyCall(n, pred, node)

SpecNotify == Init /\ [][NextNotify]_vars

\* ChordNode::notify with the key transfer that follows a predecessor change, as a
\* function of the node, its predecessor, the peer it is notified of and the keys
\* its store holds.  transfer_keys_to_node reads the predecessor notify has just
\* written (no other thread writes it meanwhile).
Stores == [Key -> {NoValue, "v1"}]

NotifyTransfer(n, pred, node, store) ==
    /\ last.node \in {Nil, n}
    /\ \E r \in {notify(n, pred, node)} :
       \E store1 \in {IF r.predecessor_changed
                       THEN transfer_keys_to_node(n, node, r.predecessor, store)
                       ELSE store} :
          last' = Seen("notify_transfer", n, node,
                       IF r.predecessor_changed THEN "changed" ELSE "unchanged",
                       Nil, NoValue, "none",
                       [before |-> pred, held |-> KeysOf(store), kept |-> KeysOf(store1)])
    /\ UNCHANGED <<status, ringVars, local_storage, replication_factor, fdVars, wedged,
                   ghostVars, lockVars>>

NextTransfer ==
    \E n \in Node : \E pred \in (Id \ {n}) \cup {Nil}, node \in Id, store \in Stores :
        NotifyTransfer(n, pred, node, store)

SpecTransfer == Init /\ [][NextTransfer]_vars

\* Join-time transfer in a ring of two nodes: nodes start and join, clients put,
\* peers notify.  Every peer goes on notifying (the notify cycle: weak fairness).
NextRetry ==
    \/ \E n \in Node : Create(n)
    \/ \E n \in Node, b \in Node : Join(n, b)
    \/ \E n \in Node, p \in Node, seen \in Node \cup {Nil} : Notify(n, p, seen)
    \/ \E n \in Node, k \in Key, v \in Value : ClientPut(n, k, v, FALSE)

SpecRetry ==
    /\ Start(Pair, DefaultReplicationFactor)
    /\ [][NextRetry]_vars
    /\ \A n \in Pair, p \in Pair : WF_vars(Notify(n, p, p))

\* A FIND_SUCCESSOR request to node n (ChordServer::handle_chord_operation): the answer of
\* ChordNode::find_successor.  last.data keeps the first successor and the closest
\* preceding finger the lookup started from.
FindSuccessor(n, id, deadlock) ==
    /\ Up(n)
    /\ \E r \in {find_successor(Routing(n), n, id, Ctx, deadlock)} :
       /\ node_statuses' = r.G.fd
       /\ fail_streak' = r.G.streak
       /\ wedged' = r.G.wedged
       /\ last' = Seen("FIND_SUCCESSOR", n, r.node,
                       IF r.hung THEN "NoReply" ELSE IF r.node = Nil THEN "ERROR" ELSE "SUCCESS",
                       id, NoValue, "none",
                       [s0 |-> successor_list[n][1],
                        predecessor |-> predecessor[n],
                        closest |-> closest_preceding_node(Routing(n), n, id)])
    /\ UNCHANGED <<status, ringVars, local_storage, replication_factor, clock_late,
                   ghostVars, lockVars>>

\* Lookups in a ring of three nodes that start, join, notify and stop.
NextLookup ==
    \/ \E n \in Node : Create(n)
    \/ \E n \in Node, b \in Node : Join(n, b)
    \/ \E n \in Node, p \in Node, seen \in Node \cup {Nil} : Notify(n, p, seen)
    \/ \E n \in Node : Stop(n)
    \/ \E n \in Node, id \in Id, d \in BOOLEAN : FindSuccessor(n, id, d)

SpecLookup == Init /\ [][NextLookup]_vars

\* One call of ChordNode::handle_node_failure for a peer, as failure_detection_loop
\* makes it for a node it found failed.  last.data keeps the routing state the call
\* started from.
HandleNodeFailure(n, failed_node, deadlock) ==
    /\ Up(n)
    /\ failed_node # n
    /\ \E h \in {handle_node_failure(n, failed_node, Routing(n), Ctx, deadlock)} :
          /\ deadlock => h.hung
          /\ predecessor' = [predecessor EXCEPT ![n] = h.rt.pred]
          /\ successor_list' = [successor_list EXCEPT ![n] = h.rt.succ]
          /\ finger_table' = [finger_table EXCEPT ![n] = h.rt.fingers]
          /\ node_statuses' = h.G.fd
          /\ fail_streak' = h.G.streak
          /\ wedged' = h.G.wedged
          /\ last' = Seen("handle_node_failure", n, failed_node,
                          IF h.hung THEN "hung" ELSE "done", Nil, NoValue, "none",
                          Routing(n))
    /\ UNCHANGED <<status, next_finger_to_fix, local_storage, replication_factor,
                   clock_late, ghostVars, lockVars>>

\* Failure handling in a ring of three nodes that start, join, notify and stop.
NextHandle ==
    \/ \E n \in Node : Create(n)
    \/ \E n \in Node, b \in Node : Join(n, b)
    \/ \E n \in Node, p \in Node, seen \in Node \cup {Nil} : Notify(n, p, seen)
    \/ \E n \in Node : Stop(n)
    \/ \E n \in Node, f \in Node, d \in BOOLEAN : HandleNodeFailure(n, f, d)

SpecHandle == Init /\ [][NextHandle]_vars

\* Every operation of the nodes and of their threads.
Next ==
    \/ NextTasks
    \/ NextRing
    \/ NextData
    \/ NextReplicate
    \/ NextAsync
    \/ NextAsyncDetect
    \/ NextFD
    \/ NextFingers
    \/ NextOwner
    \/ NextReplicas
    \/ NextProbe
    \/ NextStabilize
    \/ NextNotify
    \/ NextTransfer
    \/ NextRetry
    \/ NextLookup
    \/ NextHandle
    \/ NextLocks

Spec == Init /\ [][Next]_vars

\* ------------------------------------------------------- failure detector claims

DataMutex == {"routing_mutex", "storage_mutex", "replication_mutex", "fd_mutex"}

\* C8: no thread performs network I/O while it holds the routing, local-store,
\* replication or failure-detector mutex.
C8_NoNetworkIOUnderLock ==
    \A t \in Thread : th[t].in_io => \A m \in DataMutex : ~Holds(t, m)

\* Every mutex a thread holds ranks above the different mutexes it took before it.
LockOrderRespected ==
    \A t \in Thread : \A i \in 1..Len(th[t].held) : \A j \in (i + 1)..Len(th[t].held) :
        th[t].held[i] # th[t].held[j] => Rank(th[t].held[i]) < Rank(th[t].held[j])

\* Thread t is blocked in lock() on a mutex that thread u owns.
WaitsFor(t, u) ==
    /\ Busy(t)
    /\ NextEvent(t)[1] = "acq"
    /\ owner[NextEvent(t)[2]] = u
    /\ u = t => th[t].stuck

WaitCycle ==
    \E t \in Thread : WaitsFor(t, t) \/ \E u \in Thread \ {t} : WaitsFor(t, u) /\ WaitsFor(u, t)

\* C9: the lock order queue < routing < local store < replication < failure
\* detector is respected by every thread, and no cycle of lock waits forms.
C9_LockOrderNoWaitCycle == LockOrderRespected /\ ~WaitCycle

\* ------------------------------------------------------------------ ring claims

Members == {n \in Node : status[n] = "up"}

\* Clockwise distance from a to b on the identifier circle.
Distance(a, b) == (b - a + Modulus) % Modulus

RingSuccessor(n) ==
    IF Members \ {n} = {} THEN n
    ELSE CHOOSE m \in Members \ {n} :
            \A q \in Members \ {n} : Distance(n, m) <= Distance(n, q)

RingPredecessor(n) ==
    IF Members \ {n} = {} THEN n
    ELSE CHOOSE m \in Members \ {n} :
            \A q \in Members \ {n} : Distance(m, n) <= Distance(q, n)

\* The ring has settled: every member runs, has reached its first successor in a
\* stabilize round, and further rounds of stabilize and of failure detection leave
\* its routing state as it is.
StableRing ==
    /\ Cardinality(Members) >= 2
    /\ \A n \in Members :
          /\ ~wedged[n]
          /\ successor_list[n][1] # n => node_statuses[n][successor_list[n][1]].present
          /\ stabilize(n, Routing(n), Ctx).successor = successor_list[n][1]
          /\ ProbeAll(n, NodesToCheck(n), 1, Ctx, <<>>).failed_nodes = <<>>

Primaries(k) == {n \in Members : is_responsible_for_key(Routing(n), n, k)}

\* C1: in a stable ring, every key has exactly one node that is_responsible_for_key
\* holds for.
C1_OnePrimaryPerKey ==
    StableRing => \A k \in Key : Cardinality(Primaries(k)) = 1

RingCorrect ==
    \A n \in Members :
        /\ successor_list[n][1] = RingSuccessor(n)
        /\ predecessor[n] = RingPredecessor(n)

AllJoined == \A n \in Node : status[n] = "up"

\* C2: once the last node has joined through its bootstrap peer and nothing else
\* joins, leaves or fails, the rounds of stabilize and notify eventually leave
\* every node with its true first successor and its true predecessor.
C2_RingConverges == AllJoined ~> RingCorrect

\* ------------------------------------------------------------------ data claims

\* C3: after notify(p) has handed keys over, every entry it removed from the local
\* store is held by the old holder or by p.
C3_HandedOverKeysKept ==
    last.op = "notify" =>
        \A e \in last.data :
            \/ local_storage[last.node][e[1]] = e[2]
            \/ local_storage[last.peer][e[1]] = e[2]

ReplicaSet(n) ==
    {get_replica_nodes(Routing(n), n)[i] : i \in 1..Len(get_replica_nodes(Routing(n), n))}

C7_LeavePushesStore ==
    (last.op = "leave" /\ last.peer # last.node /\ Connectable(last.peer)) =>
        \A e \in last.data : local_storage[last.peer][e[1]] = e[2]

\* C6: in the ring of A (created) and B (joined through A) with replication factor
\* 2, once a PUT of k was answered SUCCESS by A while both ran and A has stopped
\* since, a GET of k at B is answered SUCCESS with the value written.
C6_GetSurvivesPrimaryStop ==
    (/\ last.op = "GET"
     /\ acked[last.key].node = founder
     /\ acked[last.key].ring = Pair
     /\ founder # Nil
     /\ last.node # founder
     /\ status[founder] = "stopped"
     /\ Up(last.node)) =>
        last.status = "SUCCESS" /\ last.val = acked[last.key].val

\* ------------------------------------------------------------ probing claims

\* C11: after a round of the failure detection loop, a peer the round probed and
\* did not report failed has failed fewer than failure_threshold contacts in a row:
\* the cleanup at the end of each round has not thrown its failure count away.
C11_FailingPeerReported ==
    (last.op = "failure_detection" /\ last.status = "done") =>
        \A p \in Node :
            <<p, "alive">> \in last.data => fail_streak[last.node][p] < failure_threshold

\* ------------------------------------------------------------- shutdown claims

\* C12: once running is false, a maintenance thread begins no remote call without
\* having read the flag since its previous remote call.
C12_NoCallAfterStop ==
    \A t \in Task : ~(loops[t].in_call /\ loops[t].late /\ ~loops[t].checked)

\* C13: stop_maintenance never waits for a maintenance thread that is stuck in a
\* remote call.
C13_StopNeverWaitsForStuckCall ==
    \A i \in 1..Len(JoinOrder) :
        stopper = i => ~(loops[JoinOrder[i]].in_call /\ loops[JoinOrder[i]].stuck)

\* ---------------------------------------------------------- replication claims
Min(a, b) == IF a < b THEN a ELSE b

\* C14: a synchronous replicate_put that returns has sent one PUT to each of the
\* first min(R-1, |replicas|) replicas, in order, and returns success exactly when
\* every one of them answered SUCCESS (so it succeeds on an empty list).
C14_SyncReplicatePutAllOrNothing ==
    (last.op = "replicate_put" /\ last.status # "hung") =>
        LET log == last.data.log
            replicas == last.data.replicas IN
        /\ Len(log) = Min(replication_factor - 1, Len(replicas))
        /\ \A i \in 1..Len(log) : log[i].to = replicas[i]
        /\ last.status = "ok" <=> \A i \in 1..Len(log) : log[i].st = "SUCCESS"

\* A call that wrote to one replica and failed on the next.
C14_OneWriteOfTwoFailed ==
    /\ last.op = "replicate_put"
    /\ last.status = "failed"
    /\ Len(last.data.log) = 2
    /\ last.data.log[1].st = "SUCCESS"
    /\ last.data.log[2].st # "SUCCESS"

C16_ValueReachesReplicas ==
    (worker = "stuck" /\ last.op = "process_single_task") =>
        \A i \in 1..Len(last.data.replicas) :
            Up(last.data.replicas[i]) => local_storage[last.data.replicas[i]][last.key] = last.val

\* ------------------------------------------------------------- GET and DELETE claims
\* The replicas of node n, in order, and the first of them that runs and holds key k.
Holders(n, k) ==
    LET replicas == get_replica_nodes(Routing(n), n) IN
    {i \in 1..Len(replicas) :
        Connectable(replicas[i]) /\ local_storage[replicas[i]][k] # NoValue}

FirstHolder(n, k) ==
    get_replica_nodes(Routing(n), n)[CHOOSE i \in Holders(n, k) : \A j \in Holders(n, k) : i <= j]

AnsweredAsPrimary(op) ==
    /\ last.op = op
    /\ last.status \in {"SUCCESS", "KEY_NOT_FOUND"}
    /\ is_responsible_for_key(Routing(last.node), last.node, last.key)

\* C20: a GET answered by the primary returns the local value when there is one; on a
\* local miss it returns the value of the first replica, in order, that holds one, and
\* KEY_NOT_FOUND only if no replica that can be reached holds one.
C20_GetLocalThenReplicas ==
    AnsweredAsPrimary("GET") =>
        IF local_storage[last.node][last.key] # NoValue
        THEN last.status = "SUCCESS" /\ last.val = local_storage[last.node][last.key]
        ELSE IF Holders(last.node, last.key) # {}
             THEN /\ last.status = "SUCCESS"
                  /\ last.val = local_storage[FirstHolder(last.node, last.key)][last.key]
             ELSE last.status = "KEY_NOT_FOUND"

\* C17: once a DELETE of k was answered SUCCESS and no PUT of k was issued since, no
\* node answers a GET of k with a value.
C17_DeletedKeyNotFound ==
    (last.op = "GET" /\ Deleted(last.key)) => last.status # "SUCCESS"

\* C18: a DELETE answered by the primary is answered KEY_NOT_FOUND exactly when neither
\* the primary nor any of its replicas held the key; otherwise the key is gone from
\* the primary's store, replicate_delete went to the replicas and the answer is SUCCESS.
C18_DeleteFindsKey ==
    AnsweredAsPrimary("DELETE") =>
        LET replicas == get_replica_nodes(Routing(last.node), last.node)
            existed == \/ last.node \in last.data
                       \/ \E i \in 1..Len(replicas) : replicas[i] \in last.data
        IN /\ last.status = "KEY_NOT_FOUND" <=> ~existed
           /\ last.status = "SUCCESS" =>
                 /\ local_storage[last.node][last.key] = NoValue
                 /\ replicas # <<>> => last.repl \in {"ok", "failed"}

\* C19: a DELETE at a primary that held the key locally is answered SUCCESS, and the
\* key is gone from its store, whatever replicate_delete returned.
C19_DeleteSucceedsAfterLocalRemove ==
    (AnsweredAsPrimary("DELETE") /\ last.node \in last.data) =>
        /\ last.status = "SUCCESS"
        /\ local_storage[last.node][last.key] = NoValue

\* A DELETE answered SUCCESS although replicate_delete failed.
C19_ReplicaDeleteFailed ==
    /\ AnsweredAsPrimary("DELETE")
    /\ last.node \in last.data
    /\ last.status = "SUCCESS"
    /\ last.repl = "failed"

\* -------------------------------------------------------------- overwrite claims

\* C21: a PUT that is answered ERROR leaves the store of the node that answered as
\* it was before the request: a value the key held there is still held.
C21_FailedPutKeepsOldValue ==
    (last.op = "PUT" /\ last.status = "ERROR") =>
        local_storage[last.node][last.key] = last.data[last.node]

\* C22: a PUT(k, v) at a primary that holds v for k already leaves k on every node
\* that held v as it was, whatever the outcome of the replication.
C22_SamePutAgainChangesNothing ==
    (/\ last.op = "PUT"
     /\ last.status \in {"SUCCESS", "ERROR"}
     /\ last.data[last.node] = last.val) =>
        \A m \in Node : last.data[m] = last.val => local_storage[m][last.key] = last.val

\* --------------------------------------------------------- routing state claims

\* C23: the first successor of a running node is never null, whatever rounds of
\* stabilize and of failure handling have run; it is the node itself while no other
\* node has started, and again after a round of failure detection that reported
\* every peer the node knew as failed.
C23_FirstSuccessorNeverNull ==
    \A n \in Node : status[n] = "up" =>
        /\ successor_list[n][1] # Nil
        /\ (\A m \in Node \ {n} : status[m] = "down") => successor_list[n][1] = n
        /\ (/\ last.op = "failure_detection"
            /\ last.node = n
            /\ last.data # {}
            /\ \A e \in last.data : e[2] = "failed") => successor_list[n][1] = n

\* A node that joined through a peer, saw it fail and handled the failure.
C23_SuccessorFailedAndHandled ==
    /\ last.op = "failure_detection"
    /\ status[last.node] = "up"
    /\ founder # last.node
    /\ \E e \in last.data : e[2] = "failed"
    /\ successor_list[last.node][1] = last.node

\* C24: every finger slot i of a running node points at the node itself or at a
\* peer that lies at least 2^i after the node on the identifier circle.
C24_FingersAtOrAfterStart ==
    \A n \in Node : status[n] = "up" =>
        \A i \in 0..(FINGER_TABLE_SIZE - 1) :
            \/ finger_table[n][i] = n
            \/ finger_table[n][i] # Nil /\ Distance(n, finger_table[n][i]) >= 2 ^ i

\* C25: on a node whose predecessor's identifier is greater than its own,
\* is_responsible_for_key is true exactly for the identifiers above the predecessor's
\* (up to the top of the space) and for those from 0 up to the node's own.
C25_OwnershipWrapsAround ==
    (last.op = "is_responsible_for_key" /\ last.peer # Nil /\ last.peer > last.node) =>
        (last.status = "true" <=>
            \/ last.peer < last.key /\ last.key < Modulus
            \/ 0 <= last.key /\ last.key <= last.node)

\* The test answered true for an identifier below the node's own, past the wrap.
C25_OwnedPastTheWrap ==
    /\ last.op = "is_responsible_for_key"
    /\ last.peer # Nil
    /\ last.peer > last.node
    /\ last.key < last.node
    /\ last.status = "true"

\* The entries of list that are neither null nor n, each once, in order of their
\* first appearance.
RECURSIVE DistinctOthers(_, _, _, _)
DistinctOthers(list, n, i, found) ==
    IF i > Len(list)
    THEN found
    ELSE DistinctOthers(list, n, i + 1,
                        IF list[i] # Nil /\ list[i] # n /\ FirstIndex(found, list[i]) = 0
                        THEN Append(found, list[i]) ELSE found)

\* C26: the list get_replica_nodes returns holds no node twice and never the node
\* itself; it is the first R - 1 distinct entries of the successor list that are not
\* the node itself (all of them when there are fewer), and it is empty when every
\* entry of the successor list is the node itself.
C26_ReplicasAreFirstDistinctOthers ==
    last.op = "get_replica_nodes" =>
        LET replicas == last.data
            others == DistinctOthers(successor_list[last.node], last.node, 1, <<>>) IN
        /\ \A i, j \in 1..Len(replicas) : replicas[i] = replicas[j] => i = j
        /\ \A i \in 1..Len(replicas) : replicas[i] # last.node /\ replicas[i] # Nil
        /\ replicas = SubSeq(others, 1, Min(replication_factor - 1, Len(others)))
        /\ successor_list[last.node] = SelfList(last.node) => replicas = <<>>

\* A call that returned R - 1 replicas, none of them the node itself.
C26_FullReplicaSet ==
    /\ last.op = "get_replica_nodes"
    /\ replication_factor > 1
    /\ Len(last.data) = replication_factor - 1

\* ---------------------------------------------------- failure detector states

\* C27: a peer whose counter of consecutive failures is below half the threshold
\* (failure_threshold / 2 in the integer arithmetic of the detector: 1 for the default
\* threshold 3) is neither suspected nor failed; from there up to the threshold it is
\* suspected and not failed; at the threshold and above it is failed.
C27_FlagsFollowCounter ==
    \A n \in Node, p \in Node :
        LET s == node_statuses[n][p] IN
        s.present =>
            /\ s.consecutive_failures < failure_threshold \div 2 =>
                   ~s.is_suspected /\ ~s.is_failed
            /\ (/\ s.consecutive_failures >= failure_threshold \div 2
                /\ s.consecutive_failures < failure_threshold) =>
                   s.is_suspected /\ ~s.is_failed
            /\ s.consecutive_failures >= failure_threshold => s.is_failed

\* A peer that failed failure_threshold probes in a row, suspected on the way.
C27_SuspectedOnTheWayToFailed ==
    /\ last.op = "failure_detection"
    /\ \E p \in Node :
          /\ node_statuses[last.node][p].present
          /\ node_statuses[last.node][p].is_suspected
          /\ node_statuses[last.node][p].is_failed
          /\ node_statuses[last.node][p].consecutive_failures = failure_threshold
          /\ fail_streak[last.node][p] = failure_threshold

\* C28: after a successful probe of a peer (and after a successful contact), whatever
\* the peer's state was, its consecutive_failures is 0 and it is neither suspected
\* nor failed.
C28_SuccessfulProbeHeals ==
    (last.op \in {"ping_node", "mark_node_responsive"} /\ last.status = "responsive") =>
        LET s == node_statuses[last.node][last.peer] IN
        /\ s.present
        /\ s.consecutive_failures = 0
        /\ ~s.is_suspected
        /\ ~s.is_failed
        /\ ~is_node_failed(node_statuses[last.node], last.peer)
        /\ ~is_node_suspected(node_statuses[last.node], last.peer)

\* A successful probe of a peer that was failed, with its counter above the threshold.
C28_FailedPeerProbedAlive ==
    /\ last.op = "ping_node"
    /\ last.status = "responsive"
    /\ last.data.is_failed
    /\ last.data.is_suspected
    /\ last.data.consecutive_failures > failure_threshold

\* ------------------------------------------------------------- stabilize claims

C30_PeerBecomesPredecessorExactlyWhenCloser ==
    last.op = "notify_call" =>
        LET pred == last.data.before IN
        IF last.peer # last.node
           /\ (pred = Nil \/ in_range(last.peer, pred, last.node, FALSE))
        THEN last.data.after = last.peer
        ELSE last.data.after = pred

\* C30 (as stated): notify(p) sets predecessor to p exactly when predecessor is
\* unknown or p's id lies strictly between the predecessor's id and the node's id;
\* in every other case predecessor is unchanged.
C30_PredecessorSetExactlyWhenCloser ==
    last.op = "notify_call" =>
        LET pred == last.data.before IN
        IF pred = Nil \/ in_range(last.peer, pred, last.node, FALSE)
        THEN last.data.after = last.peer
        ELSE last.data.after = pred

\* A node with a predecessor was notified of a peer strictly between that
\* predecessor and itself, and took it.
C30_CloserPeerTaken ==
    /\ last.op = "notify_call"
    /\ last.peer # last.node
    /\ last.data.before # Nil
    /\ in_range(last.peer, last.data.before, last.node, FALSE)
    /\ last.data.after = last.peer

\* ---------------------------------------------------------- key transfer claims

\* C31: when notify changes the predecessor from old_predecessor to new_predecessor,
\* the keys the node hands over (no longer holds) are exactly the keys of its store
\* whose id lies in (old_predecessor, new_predecessor]; the other keys stay.
C31_HandedOverKeysAreTheInterval ==
    (last.op = "notify_transfer" /\ last.status = "changed" /\ last.data.before # Nil) =>
        \A k \in last.data.held :
            (k \notin last.data.kept) <=> in_range(k, last.data.before, last.peer, TRUE)

\* C32: a key that a node selected for its new predecessor p at a notify and that p
\* did not receive is pushed again at the later notifies from p, so it eventually
\* is in p's store.
C32_FailedPushRetriedUntilDelivered ==
    \A n \in Pair, p \in Pair, k \in Key :
        (/\ last.op = "notify"
         /\ last.node = n
         /\ last.peer = p
         /\ \E v \in Value : <<k, v>> \in last.data)
            ~> (local_storage[p][k] # NoValue)

\* -------------------------------------------------------------------- join claims

\* C33: join(b) with b other than the node leaves predecessor unknown, the first
\* successor equal to the node that find_successor on b returns for the joining
\* node's id, and every finger slot equal to that same node.
C33_JoinTakesSuccessorFromBootstrapLookup ==
    [][\A n \in Node, b \in Node :
          Join(n, b) =>
              LET s == find_successor(Routing(b), b, n, Ctx, FALSE).node IN
              /\ predecessor'[n] = Nil
              /\ successor_list'[n][1] = s
              /\ \A i \in 0..(FINGER_TABLE_SIZE - 1) : finger_table'[n][i] = s]_vars

\* ------------------------------------------------------------------ lookup claims

\* C34: find_successor(target) answers with the first successor whenever target lies
\* in (self, first successor], whatever the node's predecessor is.
C34_TargetUpToSuccessorGivesSuccessor ==
    (/\ last.op = "FIND_SUCCESSOR"
     /\ last.status # "NoReply"
     /\ in_range(last.key, last.node, last.data.s0, TRUE))
        => last.peer = last.data.s0

\* C35: when find_successor hands the lookup to the closest preceding finger p and
\* the call to p fails, p is marked failed in the node's failure detector and the
\* answer is the first successor, never a null peer.
C35_FailedRemoteLookupFallsBack ==
    (/\ last.op = "FIND_SUCCESSOR"
     /\ last.status # "NoReply"
     /\ ~is_responsible_for_key([pred |-> last.data.predecessor,
                                 succ |-> SelfList(last.node),
                                 fingers |-> SelfFingers(last.node)], last.node, last.key)
     /\ ~in_range(last.key, last.node, last.data.s0, TRUE)
     /\ last.data.closest # last.node
     /\ ~Connectable(last.data.closest))
        => /\ is_node_failed(node_statuses[last.node], last.data.closest)
           /\ last.peer = last.data.s0
           /\ last.peer # Nil

\* -------------------------------------------------------- failure handling claims

\* C36: when handle_node_failure(failed) has returned, no successor-list slot and no
\* finger slot of the node holds failed, the predecessor is unknown if it was failed,
\* and the successors that were behind failed have each moved one slot to the left,
\* in their order (the list is as it was when failed was not in it).
C36_FailedNodeForgotten ==
    (last.op = "handle_node_failure" /\ last.status = "done") =>
        LET n == last.node
            failed == last.peer
            old == last.data
            idx == FirstIndex(old.succ, failed)
        IN /\ \A j \in 1..SUCCESSOR_LIST_SIZE : successor_list[n][j] # failed
           /\ \A i \in 0..(FINGER_TABLE_SIZE - 1) : finger_table[n][i] # failed
           /\ old.pred = failed => predecessor[n] = Nil
           /\ \A j \in 1..(SUCCESSOR_LIST_SIZE - 1) :
                  successor_list[n][j] = IF idx # 0 /\ j >= idx THEN old.succ[j + 1]
                                         ELSE old.succ[j]

\* The failed node was the first successor, the predecessor and a finger of the node
\* whose handle_node_failure has returned.
C36_SuccessorPredecessorAndFingerFailed ==
    /\ last.op = "handle_node_failure"
    /\ last.status = "done"
    /\ last.data.succ[1] = last.peer
    /\ last.data.pred = last.peer
    /\ \E i \in 0..(FINGER_TABLE_SIZE - 1) : last.data.fingers[i] = last.peer

\* C37: a thread reads or writes predecessor, successor_list, finger_table or
\* next_finger_to_fix only while it holds the routing mutex.
C37_RoutingStateUnderRoutingMutex ==
    \A t \in Thread :
        (Busy(t) /\ NextEvent(t)[1] = "use") => Holds(t, NextEvent(t)[2])

\* ----------------------------------------------------------- local fallback claims

\* C38: when a node that is not primary for key k gets find_successor(id(k)) = itself,
\* the request is carried out on its own store as on a primary: a PUT (the node has no
\* replicas to write to) stores the value and succeeds, a GET of a key the node holds
\* returns its value, a DELETE of a key the node holds (no replicas) removes it and
\* succeeds.
C38_SelfLookupFallsBackToPrimaryPath ==
    [][\A n \in Node :
          (/\ last'.op \in {"PUT", "GET", "DELETE"}
           /\ last'.node = n
           /\ last'.status # "NoReply"
           /\ status[n] = "up"
           /\ ~is_responsible_for_key(Routing(n), n, last'.key)
           /\ find_successor(Routing(n), n, last'.key, Ctx, FALSE).node = n)
          => LET k == last'.key
                 alone == get_replica_nodes(Routing(n), n) = <<>>
             IN /\ (last'.op = "PUT" /\ alone)
                      => (last'.status = "SUCCESS" /\ local_storage'[n][k] = last'.val)
                /\ (last'.op = "GET" /\ local_storage[n][k] # NoValue)
                      => (last'.status = "SUCCESS" /\ last'.val = local_storage[n][k])
                /\ (last'.op = "DELETE" /\ alone /\ local_storage[n][k] # NoValue)
                      => (last'.status = "SUCCESS" /\ local_storage'[n][k] = NoValue)]_vars

\* ---------------------------------------------------------------- relock claims

\* C39: no thread calls lock() on the routing mutex while it holds it (so no operation
\* blocks on its own lock).
C39_RoutingMutexNeverRelocked ==
    \A t \in Thread :
        ~(/\ Busy(t)
          /\ NextEvent(t) = Acq("routing_mutex")
          /\ Holds(t, "routing_mutex"))

\* ---------------------------------------------------------------------------
\* Stopping the replication worker
\* ---------------------------------------------------------------------------

\* C40: stop_async_processing always returns: once running is false the worker is
\* not left blocked on the queue condition variable, so it sees running == false,
\* leaves process_replication_queue and the join completes.
C40_StoppedWorkerNotLeftWaiting ==
    ~(~async_running /\ worker = "waiting")

====
